---- MODULE Spec2Model ----
(***************************************************************************)
(* A model of the how-person MCP server: the tool-call handler with its    *)
(* request validation and summary cache (src/src/index.ts), the            *)
(* orchestration of the four platform extractors and the cross-platform    *)
(* merge and summary rendering (src/src/analyzer.ts).                      *)
(*                                                                         *)
(* Representation of JavaScript values:                                    *)
(*  - a string that is inspected character-wise (a URL) is a sequence of   *)
(*    lexical tokens, e.g. <<"https", "://", "github.com", "/", "alice">>; *)
(*    the empty string is <<>>;                                            *)
(*  - an object used as an ordered map (Record<string, number>) is a       *)
(*    sequence of <<key, value>> pairs with distinct keys, in insertion    *)
(*    order;                                                               *)
(*  - an optional property is a sequence of length 0 (undefined) or 1;     *)
(*  - a number that may be fractional is an exact rational [num, den].     *)
(***************************************************************************)
EXTENDS Integers, Sequences, FiniteSets, TLC

(***************************************************************************)
(* Generic helpers                                                         *)
(***************************************************************************)

Range(s) == {s[i] : i \in 1..Len(s)}

Contains(s, x) == \E i \in 1..Len(s) : s[i] = x

\* Array.prototype.slice(0, n)
Take(s, n) == SubSeq(s, 1, IF Len(s) < n THEN Len(s) ELSE n)

NoDuplicates(s) == \A i, j \in 1..Len(s) : s[i] = s[j] => i = j

RECURSIVE Gcd(_, _)
Gcd(a, b) == IF b = 0 THEN a ELSE Gcd(b, a % b)

\* An exact rational in lowest terms; den > 0.
Rat(n, d) == LET g == Gcd(n, d) IN [num |-> n \div g, den |-> d \div g]

RatZero == [num |-> 0, den |-> 1]

RatAdd(a, b) == Rat(a.num * b.den + b.num * a.den, a.den * b.den)

RatDivInt(a, n) == Rat(a.num, a.den * n)

RatLess(a, b) == a.num * b.den < b.num * a.den

(***************************************************************************)
(* types.ts: Platform                                                      *)
(***************************************************************************)

GITHUB == "github"
TWITTER == "twitter"
SPEAKERDECK == "speakerdeck"
BLOG == "blog"

\* The order in which PersonAnalyzer.analyze visits the platforms.
PlatformOrder == <<GITHUB, TWITTER, SPEAKERDECK, BLOG>>

Platforms == Range(PlatformOrder)

(***************************************************************************)
(* analyzer.ts: mergeTechStacks                                            *)
(***************************************************************************)

KeyIndex(m, k) == IF \E i \in 1..Len(m) : m[i][1] = k
                  THEN CHOOSE i \in 1..Len(m) : m[i][1] = k
                  ELSE 0

HasKey(m, k) == KeyIndex(m, k) # 0

\* m[k] || 0
ScoreOf(m, k) == IF HasKey(m, k) THEN m[KeyIndex(m, k)][2] ELSE 0

Keys(m) == [i \in 1..Len(m) |-> m[i][1]]

\* A mutant of AddScore: a later platform's score overwrites the earlier one.
AddScoreOverwrite(m, k, score) ==
  IF HasKey(m, k)
  THEN [m EXCEPT ![KeyIndex(m, k)] = <<k, score>>]
  ELSE Append(m, <<k, score>>)

\* languages[lang] = (languages[lang] || 0) + score
AddScore(m, k, score) ==
  IF HasKey(m, k)
  THEN [m EXCEPT ![KeyIndex(m, k)] = <<k, ScoreOf(m, k) + score>>]
  ELSE Append(m, <<k, score>>)

\* for (const [k, score] of Object.entries(tally)) acc[k] = (acc[k] || 0) + score
RECURSIVE AddTally(_, _)
AddTally(acc, tally) ==
  IF tally = <<>> THEN acc
  ELSE LET added == AddScore(acc, Head(tally)[1], Head(tally)[2])
       IN IF added = added THEN AddTally(added, Tail(tally)) ELSE added

\* set.add(x) on an insertion-ordered Set
SetAdd(s, x) == IF Contains(s, x) THEN s ELSE Append(s, x)

\* A mutant of AddAll: values are appended without the Set's deduplication.
AddAllNoDedup(acc, xs) == acc \o xs

\* for (const x of xs) set.add(x)
RECURSIVE AddAll(_, _)
AddAll(acc, xs) ==
  IF xs = <<>> THEN acc
  ELSE LET added == SetAdd(acc, Head(xs))
       IN IF added = added THEN AddAll(added, Tail(xs)) ELSE added

\* A mutant of InsertByScore: the sort is not stable, an entry goes before
\* the entries of its own score.
RECURSIVE InsertBeforeEqual(_, _)
InsertBeforeEqual(sorted, e) ==
  IF sorted = <<>> THEN <<e>>
  ELSE IF Head(sorted)[2] > e[2]
       THEN <<Head(sorted)>> \o InsertBeforeEqual(Tail(sorted), e)
       ELSE <<e>> \o sorted

\* Insert entry e into a list already sorted by descending score, after every
\* entry whose score is not lower (Array.prototype.sort is stable).
RECURSIVE InsertByScore(_, _)
InsertByScore(sorted, e) ==
  IF sorted = <<>> THEN <<e>>
  ELSE IF Head(sorted)[2] >= e[2]
       THEN <<Head(sorted)>> \o InsertByScore(Tail(sorted), e)
       ELSE <<e>> \o sorted

\* Object.fromEntries(Object.entries(m).sort((a, b) => b[1] - a[1]))
RECURSIVE SortByScore(_)
SortByScore(m) ==
  IF m = <<>> THEN <<>>
  ELSE InsertByScore(SortByScore(SubSeq(m, 1, Len(m) - 1)), m[Len(m)])

\* The accumulators of mergeTechStacks after the loop over the first n analyses.
RECURSIVE TechAcc(_, _)
TechAcc(analyses, n) ==
  IF n = 0
  THEN [languages |-> <<>>, frameworks |-> <<>>, tools |-> <<>>, topicsSet |-> <<>>]
  ELSE LET acc == TechAcc(analyses, n - 1)
           t   == analyses[n].techStack
       IN [languages  |-> IF t.languages # <<>>
                          THEN AddTally(acc.languages, t.languages)
                          ELSE acc.languages,
           frameworks |-> IF t.frameworks # <<>>
                          THEN AddTally(acc.frameworks, t.frameworks)
                          ELSE acc.frameworks,
           tools      |-> IF t.tools # <<>>
                          THEN AddTally(acc.tools, t.tools)
                          ELSE acc.tools,
           topicsSet  |-> IF t.topics # <<>>
                          THEN AddAll(acc.topicsSet, t.topics)
                          ELSE acc.topicsSet]

mergeTechStacks(analyses) ==
  LET acc == TechAcc(analyses, Len(analyses))
  IN [languages  |-> SortByScore(acc.languages),
      frameworks |-> SortByScore(acc.frameworks),
      tools      |-> SortByScore(acc.tools),
      topics     |-> acc.topicsSet]

(***************************************************************************)
(* analyzer.ts: summarizeCommunicationStyle                                *)
(*                                                                         *)
(* A style string is a sequence of tokens cut so that every alternative of *)
(* every keyword pattern that occurs in it is a token of its own, e.g.     *)
(* <<"eikyouryoku", "noaru", "hasshin", "sha">>; pattern.test(style) is   *)
(* then the presence of one of the pattern's alternatives among the        *)
(* tokens.  Japanese text of the source is written in romaji.              *)
(***************************************************************************)

InsufficientInfo == <<"jouhou-busoku no tame bunseki dekimasen">>

keywordPatterns ==
  << [pattern |-> {"gijutsu", "shousai", "kaisetsu", "koodo", "jissou"}, keyword |-> "gijutsuteki"],
     [pattern |-> {"kyouiku", "kyouyuu", "chuutoriaru", "gakushuu"}, keyword |-> "kyouikuteki"],
     [pattern |-> {"riidaa", "manejimento", "senryaku", "bijon"}, keyword |-> "riidaashippu"],
     [pattern |-> {"chiimu", "kyouryoku", "kyouchou", "kyoudou"}, keyword |-> "kyouchouteki"],
     [pattern |-> {"kojin", "hitori", "soro"}, keyword |-> "kojinteki"],
     [pattern |-> {"kanketsu", "shinpuru"}, keyword |-> "kanketsu"],
     [pattern |-> {"shousai", "teinei", "fukai"}, keyword |-> "shousai"],
     [pattern |-> {"baransu"}, keyword |-> "baransu"],
     [pattern |-> {"eikyouryoku", "hasshin"}, keyword |-> "hasshinryoku"] >>

\* pattern.test(style)
PatternTest(pattern, style) == \E i \in 1..Len(style) : style[i] \in pattern

\* The inner loop over keywordPatterns[p..] for one style.
RECURSIVE CountPatterns(_, _, _)
CountPatterns(keywords, style, p) ==
  IF p > Len(keywordPatterns) THEN keywords
  ELSE CountPatterns(
         IF PatternTest(keywordPatterns[p].pattern, style)
         THEN AddScore(keywords, keywordPatterns[p].keyword, 1)
         ELSE keywords,
         style, p + 1)

\* The outer loop over styles.
RECURSIVE CountKeywords(_, _)
CountKeywords(keywords, styles) ==
  IF styles = <<>> THEN keywords
  ELSE CountKeywords(CountPatterns(keywords, Head(styles), 1), Tail(styles))

\* A mutant of summarizeCommunicationStyle: the keyword categories are never
\* consulted and the first style stands for all.
summarizeFirstStyle(styles) ==
  IF Len(styles) = 0 THEN InsufficientInfo ELSE styles[1]

summarizeCommunicationStyle(styles) ==
  IF Len(styles) = 0 THEN InsufficientInfo
  ELSE IF Len(styles) = 1 THEN styles[1]
  ELSE LET sortedKeywords == Keys(SortByScore(CountKeywords(<<>>, styles)))
       IN IF Len(sortedKeywords) = 0 THEN styles[1]
          ELSE IF Len(sortedKeywords) >= 2
               THEN <<sortedKeywords[1], "katsu", sortedKeywords[2],
                      "na komyunikeeshon sutairu">>
               ELSE <<sortedKeywords[1], "na komyunikeeshon sutairu">>

(***************************************************************************)
(* analyzer.ts: mergePersonalities                                         *)
(***************************************************************************)

\* JavaScript truthiness of an optional string / token string / number.
TruthyText(opt) == opt # <<>> /\ opt[1] # <<>>
TruthyString(opt) == opt # <<>> /\ opt[1] # ""
TruthyNumber(opt) == opt # <<>> /\ opt[1].num # 0

\* The accumulators of mergePersonalities after the loop over the first n analyses.
RECURSIVE PersAcc(_, _)
PersAcc(analyses, n) ==
  IF n = 0
  THEN [interestsSet |-> <<>>, activitiesSet |-> <<>>, communicationTopicsSet |-> <<>>,
        communicationStyles |-> <<>>, communicationFrequency |-> RatZero,
        workStyles |-> <<>>]
  ELSE LET acc == PersAcc(analyses, n - 1)
           p   == analyses[n].personality
       IN [interestsSet  |-> AddAll(acc.interestsSet, p.interests),
           activitiesSet |-> AddAll(acc.activitiesSet, p.activities),
           communicationStyles |->
             IF TruthyText(p.communication.style)
             THEN Append(acc.communicationStyles, p.communication.style[1])
             ELSE acc.communicationStyles,
           communicationFrequency |->
             IF TruthyNumber(p.communication.frequency)
             THEN RatAdd(acc.communicationFrequency, p.communication.frequency[1])
             ELSE acc.communicationFrequency,
           communicationTopicsSet |->
             IF p.communication.topics # <<>>
             THEN AddAll(acc.communicationTopicsSet, p.communication.topics[1])
             ELSE acc.communicationTopicsSet,
           workStyles |->
             IF TruthyString(p.workStyle)
             THEN Append(acc.workStyles, p.workStyle[1])
             ELSE acc.workStyles]

\* A mutant of AverageFrequency: the mean over the platforms that report a
\* frequency instead of over all platforms analysed.
AverageOverReporting(analyses, communicationFrequency) ==
  LET reporting == {i \in 1..Len(analyses) :
                      TruthyNumber(analyses[i].personality.communication.frequency)}
  IN IF Cardinality(reporting) > 0
     THEN RatDivInt(communicationFrequency, Cardinality(reporting))
     ELSE RatZero

\* analyses.length > 0 ? communicationFrequency / analyses.length : 0
AverageFrequency(analyses, communicationFrequency) ==
  IF Len(analyses) > 0
  THEN RatDivInt(communicationFrequency, Len(analyses))
  ELSE RatZero

\* for (const style of workStyles) workStyleCounts[style] = (... || 0) + 1
RECURSIVE CountStyles(_, _)
CountStyles(counts, workStyles) ==
  IF workStyles = <<>> THEN counts
  ELSE CountStyles(AddScore(counts, Head(workStyles), 1), Tail(workStyles))

\* A mutant of DominantWorkStyle: the label counted last wins instead of the
\* label counted most.
DominantWorkStyleLast(workStyles) ==
  IF workStyles = <<>> THEN <<>> ELSE <<workStyles[Len(workStyles)]>>

\* Object.entries(workStyleCounts).sort(...).map(([style]) => style)[0] || undefined
DominantWorkStyle(workStyles) ==
  LET sorted == Keys(SortByScore(CountStyles(<<>>, workStyles)))
  IN IF Len(sorted) > 0 /\ sorted[1] # "" THEN <<sorted[1]>> ELSE <<>>

mergePersonalities(analyses) ==
  LET acc == PersAcc(analyses, Len(analyses))
  IN [interests  |-> acc.interestsSet,
      activities |-> acc.activitiesSet,
      communication |->
        [style     |-> <<summarizeCommunicationStyle(acc.communicationStyles)>>,
         frequency |-> <<AverageFrequency(analyses, acc.communicationFrequency)>>,
         topics    |-> <<acc.communicationTopicsSet>>],
      workStyle  |-> DominantWorkStyle(acc.workStyles)]

(***************************************************************************)
(* analyzer.ts: generateSummary                                            *)
(*                                                                         *)
(* The summary text is the sequence of its lines; a line is the fixed text *)
(* of the template (tag) and the values interpolated into it (items).      *)
(***************************************************************************)

\* A mutant of DisplayName: the switch falls to its default for every platform.
DisplayNameDefault(platform) == platform

DisplayName(platform) ==
  CASE platform = GITHUB      -> "GitHub"
    [] platform = TWITTER     -> "Twitter/X"
    [] platform = SPEAKERDECK -> "SpeakerDeck"
    [] platform = BLOG        -> "burogu"
    [] OTHER                  -> platform

\* String.prototype.trim() yields the empty string
Whitespace == {"", " ", "  ", "\t"}
TrimIsEmpty(s) == s \in Whitespace

Line(tag, items) == [tag |-> tag, items |-> items]

generateSummary(analyses, techStack, personality) ==
  LET platforms     == [i \in 1..Len(analyses) |-> DisplayName(analyses[i].platform)]
      topLanguages  == Take(Keys(techStack.languages), 3)
      topFrameworks == Take(Keys(techStack.frameworks), 3)
      topTools      == Take(Keys(techStack.tools), 3)
      topInterests  == Take(personality.interests, 5)
      NonBlank(a)   == ~TrimIsEmpty(a)
      shown         == SelectSeq(Take(personality.activities, 3), NonBlank)
  IN <<Line("no bunseki kekka ni motozuku youyaku:", platforms)>>
     \o <<Line("[gijutsu sutakku]", <<>>)>>
     \o (IF Len(topLanguages) > 0 THEN <<Line("- omona shiyou gengo: ", topLanguages)>> ELSE <<>>)
     \o (IF Len(topFrameworks) > 0 THEN <<Line("- omona fureemuwaaku: ", topFrameworks)>> ELSE <<>>)
     \o (IF Len(topTools) > 0 THEN <<Line("- omona tsuuru: ", topTools)>> ELSE <<>>)
     \o <<Line("[hitotonari]", <<>>)>>
     \o (IF Len(topInterests) > 0 THEN <<Line("- kyoumi kanshin: ", topInterests)>> ELSE <<>>)
     \o (IF TruthyText(personality.communication.style)
         THEN <<Line("- komyunikeeshon sutairu: ", personality.communication.style[1])>>
         ELSE <<>>)
     \o (IF TruthyString(personality.workStyle)
         THEN <<Line("- shigoto no sutairu: ", personality.workStyle)>> ELSE <<>>)
     \o (IF Len(personality.activities) > 0
         THEN <<Line("[katsudou naiyou]", <<>>)>>
              \o [i \in 1..Len(shown) |-> Line("- ", <<shown[i]>>)]
         ELSE <<>>)

(***************************************************************************)
(* index.ts: the tool-call arguments and their validation                  *)
(*                                                                         *)
(* request.params.arguments is either undefined (defined = FALSE) or an    *)
(* object: the sequence of its <<field, value>> members in the order the   *)
(* caller wrote them.  A value is a string, written as its token sequence. *)
(***************************************************************************)

NoArguments == [defined |-> FALSE, fields |-> <<>>]

Object(fields) == [defined |-> TRUE, fields |-> fields]

HasField(args, f) == \E i \in 1..Len(args.fields) : args.fields[i][1] = f

\* args[f], for a field the object has
Field(args, f) == args.fields[CHOOSE i \in 1..Len(args.fields) : args.fields[i][1] = f][2]

\* JavaScript truthiness of args[f]: the member exists and is not the empty string
Given(args, f) == HasField(args, f) /\ Field(args, f) # <<>>

Schemes == {"http", "https"}

\* str.match(/^https?:\/\/(www\.)?HOST\.com\/[^\/]+\/?$/) for HOST among hosts
ProfileShape(url, hosts) ==
  /\ Len(url) >= 2
  /\ url[1] \in Schemes
  /\ url[2] = "://"
  /\ LET rest == SubSeq(url, 3, Len(url))
         r    == IF rest # <<>> /\ rest[1] = "www." THEN Tail(rest) ELSE rest
         body == IF Len(r) >= 4 /\ r[Len(r)] = "/" THEN SubSeq(r, 1, Len(r) - 1) ELSE r
     IN /\ Len(body) >= 3
        /\ body[1] \in hosts
        /\ body[2] = "/"
        /\ \A i \in 3..Len(body) : body[i] # "/"

\* A mutant of ValidShape: the shape test is skipped, so every URL passes.
ValidShapeUnchecked(platform, url) == TRUE

\* The regular expression index.ts applies to the URL of a platform; the blog
\* URL has none.
ValidShape(platform, url) ==
  CASE platform = GITHUB      -> ProfileShape(url, {"github.com"})
    [] platform = TWITTER     -> ProfileShape(url, {"twitter.com", "x.com"})
    [] platform = SPEAKERDECK -> ProfileShape(url, {"speakerdeck.com"})
    [] OTHER                  -> TRUE

\* !args.github && !args.twitter && !args.speakerdeck && !args.blog
NoneGiven(args) == \A f \in Platforms : ~Given(args, f)

\* The first platform, in the order of the checks, whose URL is given and
\* fails its shape test; "" when there is none.
FirstMalformed(args) ==
  IF \E n \in 1..3 : Given(args, PlatformOrder[n])
                     /\ ~ValidShape(PlatformOrder[n], Field(args, PlatformOrder[n]))
  THEN PlatformOrder[CHOOSE n \in 1..3 :
         /\ Given(args, PlatformOrder[n])
         /\ ~ValidShape(PlatformOrder[n], Field(args, PlatformOrder[n]))
         /\ \A m \in 1..(n - 1) :
              ~(Given(args, PlatformOrder[m])
                /\ ~ValidShape(PlatformOrder[m], Field(args, PlatformOrder[m])))]
  ELSE ""

\* JSON.stringify(args): the members in their order, with their values
cacheKey(args) == args.fields

(***************************************************************************)
(* services: what each extractor does with its URL before any network call *)
(***************************************************************************)

\* url.match(/HOST\.com\/([^\/]+)/) finds a username
HasUsername(url, hosts) ==
  \E i \in 1..Len(url) :
    /\ url[i] \in hosts
    /\ i + 2 <= Len(url)
    /\ url[i + 1] = "/"
    /\ url[i + 2] # "/"

\* new URL(url) does not throw: an absolute URL with a scheme and a host
ParsesAsURL(url) ==
  /\ Len(url) >= 3
  /\ url[1] \in Schemes \cup {"ftp"}
  /\ url[2] = "://"
  /\ url[3] \notin {"/", "://"}

\* extractUsername / extractDomain returns instead of throwing
UrlAccepted(platform, url) ==
  CASE platform = GITHUB      -> HasUsername(url, {"github.com"})
    [] platform = TWITTER     -> HasUsername(url, {"twitter.com", "x.com"})
    [] platform = SPEAKERDECK -> HasUsername(url, {"speakerdeck.com"})
    [] platform = BLOG        -> ParsesAsURL(url)

(***************************************************************************)
(* What the extractors return.  The upstream data is outside the program:  *)
(* each extractor that reaches the network either fails or returns the     *)
(* PlatformAnalysis of one of a few upstream data versions, shaped as the  *)
(* service builds it (GitHub and Twitter report no workStyle, GitHub no    *)
(* frequency, Twitter no language tallies).                                *)
(***************************************************************************)

Versions == {1, 2}

PlatformAnalysis(platform, url, languages, frameworks, tools, topics, interests, activities, style, frequency, commTopics, workStyle) ==
  [platform |-> platform, url |-> url,
   techStack |-> [languages |-> languages, frameworks |-> frameworks,
                  tools |-> tools, topics |-> topics],
   personality |-> [interests |-> interests, activities |-> activities,
                    communication |-> [style |-> style, frequency |-> frequency,
                                       topics |-> commTopics],
                    workStyle |-> workStyle]]

GitHubAnalysis(url, v) ==
  IF v = 1
  THEN PlatformAnalysis(GITHUB, url,
         <<<<"TypeScript", 1200>>, <<"Python", 300>>>>, <<<<"react", 1>>>>,
         <<<<"docker", 1>>>>, <<"react", "docker">>,
         <<"react", "docker">>,
         <<"OSS developer", "2-ko no ripojitori wo shoyuu">>,
         <<<<"kojin", "teki na kaihatsu ni shuuchuu suru sutairu">>>>,
         <<>>, <<>>, <<>>)
  ELSE PlatformAnalysis(GITHUB, url,
         <<<<"Go", 800>>, <<"Python", 900>>>>, <<>>,
         <<<<"kubernetes", 2>>>>, <<"kubernetes">>,
         <<"kubernetes">>,
         <<"5-ko no ripojitori wo shoyuu", "Acme ni shozoku">>,
         <<<<"kyouchou", "teki na sutairu">>>>,
         <<>>, <<>>, <<>>)

(***************************************************************************)
(* twitter.ts: TwitterService                                              *)
(*                                                                         *)
(* userData is <<>> (null) or <<[description, followers]>>.  A tweet is    *)
(* [length, retweet, reply, keywords, hashtags, mentions, created]: the    *)
(* length of its text (0: no text), whether the text starts with 'RT @',   *)
(* whether it references a tweet it replies to, the technical keywords its *)
(* lower-cased text includes (in the order of the keyword list), its       *)
(* lower-cased hashtags and mentioned user names, and the day of           *)
(* created_at (<<>>: none).                                                *)
(***************************************************************************)

NoUserData == <<>>

\* techKeywords.some(kw => hashtag.includes(kw)); the tags of the model include
\* a keyword exactly when they start with one of these
TechTags == {"python", "reactjs", "docker", "webdev", "ai"}

\* techAccounts.some(acc => mention.username.toLowerCase().includes(acc))
TechAccounts == {"github", "stackoverflow", "nodejs", "reactjs"}

\* extractTopicsFromTweets: the body of the loop for one tweet
TopicsOfTweet(topics, tweet) ==
  IF tweet.length = 0 THEN topics
  ELSE LET afterText == AddAll(topics, tweet.keywords)
           afterTags == AddAll(afterText, SelectSeq(tweet.hashtags, LAMBDA h : h \in TechTags))
       IN AddAll(afterTags, SelectSeq(tweet.mentions, LAMBDA m : m \in TechAccounts))

\* The topics of the tweets before the last are evaluated before the body of
\* the loop is taken for the last.
RECURSIVE extractTopicsFromTweets(_)
extractTopicsFromTweets(tweets) ==
  IF tweets = <<>> THEN <<>>
  ELSE LET topics == extractTopicsFromTweets(SubSeq(tweets, 1, Len(tweets) - 1))
       IN IF topics = topics THEN TopicsOfTweet(topics, tweets[Len(tweets)]) ELSE topics

RECURSIVE extractHashtags(_)
extractHashtags(tweets) ==
  IF tweets = <<>> THEN <<>>
  ELSE LET hashtags == extractHashtags(SubSeq(tweets, 1, Len(tweets) - 1))
       IN IF hashtags = hashtags THEN AddAll(hashtags, tweets[Len(tweets)].hashtags) ELSE hashtags

\* tweets.reduce((sum, t) => sum + (t.text?.length || 0), 0)
RECURSIVE TotalLength(_)
TotalLength(tweets) ==
  IF tweets = <<>> THEN 0 ELSE tweets[1].length + TotalLength(Tail(tweets))

\* A mutant of TwitterCommStyle: the thresholds are met by a value that
\* equals them.
TwitterCommStyleInclusive(userData, tweets) ==
  IF userData = <<>> \/ Len(tweets) = 0 THEN InsufficientInfo
  ELSE LET n            == Len(tweets)
           retweetCount == Len(SelectSeq(tweets, LAMBDA t : t.retweet))
           replyCount   == Len(SelectSeq(tweets, LAMBDA t : t.reply))
       IN IF userData[1].followers >= 5000 THEN <<"eikyouryoku", "noaru", "hasshin", "sha">>
          ELSE IF retweetCount * 10 >= 7 * n THEN <<"jouhou", "kyouyuu", "gata">>
          ELSE IF replyCount * 2 >= n THEN <<"taiwa juushi gata">>
          ELSE IF TotalLength(tweets) >= 200 * n
               THEN <<"shousai", "na setsumei wo konomu sutairu">>
          ELSE IF TotalLength(tweets) <= 100 * n
               THEN <<"kanketsu", "na", "hasshin", "wo konomu sutairu">>
          ELSE <<"baransu", "no toreta komyunikeeshon sutairu">>

\* TwitterService.analyzeCommStyle; a ratio a / n > p / q is a * q > p * n
TwitterCommStyle(userData, tweets) ==
  IF userData = <<>> \/ Len(tweets) = 0 THEN InsufficientInfo
  ELSE LET n            == Len(tweets)
           retweetCount == Len(SelectSeq(tweets, LAMBDA t : t.retweet))
           replyCount   == Len(SelectSeq(tweets, LAMBDA t : t.reply))
       IN IF userData[1].followers > 5000 THEN <<"eikyouryoku", "noaru", "hasshin", "sha">>
          ELSE IF retweetCount * 10 > 7 * n THEN <<"jouhou", "kyouyuu", "gata">>
          ELSE IF replyCount * 2 > n THEN <<"taiwa juushi gata">>
          ELSE IF TotalLength(tweets) > 200 * n
               THEN <<"shousai", "na setsumei wo konomu sutairu">>
          ELSE IF TotalLength(tweets) < 100 * n
               THEN <<"kanketsu", "na", "hasshin", "wo konomu sutairu">>
          ELSE <<"baransu", "no toreta komyunikeeshon sutairu">>

\* The days of the tweets that have a created_at.
Days(tweets) == {t.created[1] : t \in {u \in Range(tweets) : u.created # <<>>}}

DatedCount(tweets) == Len(SelectSeq(tweets, LAMBDA t : t.created # <<>>))

Oldest(days) == CHOOSE d \in days : \A e \in days : d <= e
Newest(days) == CHOOSE d \in days : \A e \in days : e <= d

\* TwitterService.calculateTweetFrequency
calculateTweetFrequency(tweets) ==
  IF Len(tweets) = 0 THEN RatZero
  ELSE IF DatedCount(tweets) < 2 THEN Rat(Len(tweets), 1)
  ELSE LET daysDiff == Newest(Days(tweets)) - Oldest(Days(tweets))
       IN IF daysDiff > 0 THEN Rat(Len(tweets), daysDiff) ELSE Rat(Len(tweets), 1)

\* TwitterService.analyze after the API calls (or without them): the
\* PlatformAnalysis built from userData and tweets.
TwitterBuild(url, userData, tweets) ==
  LET topics   == extractTopicsFromTweets(tweets)
      hashtags == extractHashtags(tweets)
  IN PlatformAnalysis(TWITTER, url, <<>>, <<>>, <<>>, topics,
       Take(hashtags, 10),
       IF userData # <<>> /\ userData[1].description # "" THEN <<userData[1].description>> ELSE <<>>,
       <<TwitterCommStyle(userData, tweets)>>,
       <<calculateTweetFrequency(tweets)>>,
       <<Take(topics, 5)>>,
       <<>>)

\* TwitterService.analyze without an API client: no tweets, no user data.
TwitterAnalysisNoClient(url) == TwitterBuild(url, NoUserData, <<>>)

TwitterAnalysis(url, v) ==
  IF v = 1
  THEN PlatformAnalysis(TWITTER, url, <<>>, <<>>, <<>>, <<"react", "web">>,
         <<"reactjs", "webdev">>, <<"OSS developer">>,
         <<<<"kanketsu", "na", "hasshin", "wo konomu sutairu">>>>,
         <<Rat(5, 2)>>, <<<<"react", "web">>>>, <<>>)
  ELSE PlatformAnalysis(TWITTER, url, <<>>, <<>>, <<>>, <<"docker">>,
         <<"docker">>, <<>>,
         <<<<"eikyouryoku", "noaru", "hasshin", "sha">>>>,
         <<Rat(10, 1)>>, <<<<"docker">>>>, <<>>)

SpeakerDeckAnalysis(url, v) ==
  IF v = 1
  THEN PlatformAnalysis(SPEAKERDECK, url,
         <<<<"python", 2>>, <<"go", 1>>>>, <<<<"react", 1>>>>, <<>>,
         <<"python", "react", "cloud">>,
         <<"python", "react", "cloud">>,
         <<"3-ken no purezenteeshon wo koukai">>,
         <<<<"gijutsu", "teki na naiyou ni tokka shita sutairu">>>>,
         <<Rat(3, 12)>>, <<<<"python", "react", "cloud">>>>,
         <<"kyouchousei wo juushi suru sutairu">>)
  ELSE PlatformAnalysis(SPEAKERDECK, url, <<>>, <<>>, <<>>, <<>>,
         <<>>, <<"0-ken no purezenteeshon wo koukai">>,
         <<InsufficientInfo>>, <<RatZero>>, <<<<>>>>,
         <<"jouhou-busoku no tame bunseki dekimasen">>)

BlogAnalysis(url, v) ==
  IF v = 1
  THEN PlatformAnalysis(BLOG, url,
         <<<<"python", 1>>>>, <<>>, <<<<"docker", 1>>>>,
         <<"python", "docker", "web">>,
         <<"python", "docker", "web">>,
         <<"OSS developer", "4-ken no kiji wo bunseki">>,
         <<<<"shousai", "na setsumei wo konomu sutairu">>>>,
         <<Rat(4, 3)>>, <<<<"python", "docker", "web">>>>,
         <<"kyouchousei wo juushi suru sutairu">>)
  ELSE PlatformAnalysis(BLOG, url,
         <<<<"go", 3>>>>, <<<<"react", 2>>>>, <<>>,
         <<"go", "react">>,
         <<"go", "react">>,
         <<" ", "2-ken no kiji wo bunseki">>,
         <<<<"baransu", "no toreta komyunikeeshon sutairu">>>>,
         <<Rat(2, 12)>>, <<<<"go", "react">>>>,
         <<"gijutsuteki na shousai ni kodawaru sutairu">>)

Analysis(platform, url, v) ==
  CASE platform = GITHUB      -> GitHubAnalysis(url, v)
    [] platform = TWITTER     -> TwitterAnalysis(url, v)
    [] platform = SPEAKERDECK -> SpeakerDeckAnalysis(url, v)
    [] platform = BLOG        -> BlogAnalysis(url, v)

(***************************************************************************)
(* The tool calls a client may send                                        *)
(***************************************************************************)

\* At most MaxCalls tool calls are made, with at most MaxKeys distinct argument
\* objects among them, and the calls that are analysed request at most
\* MaxRuns extractor runs in total.
MaxCalls == 3
MaxKeys == 1
MaxRuns == 4

Absent == <<"(absent)">>

UrlPool(platform) ==
  CASE platform = GITHUB ->
         { <<>>,
           <<"https", "://", "github.com", "/", "alice">>,
           <<"https", "://", "github.com", "/">> }
    [] platform = TWITTER ->
         { <<"https", "://", "x.com", "/", "alice">>,
           <<"https", "://", "twitter.com", "/", "alice", "/", "status">> }
    [] platform = SPEAKERDECK ->
         { <<"http", "://", "www.", "speakerdeck.com", "/", "alice", "/">>,
           <<"https", "://", "github.com", "/", "alice">> }
    [] platform = BLOG ->
         { <<"https", "://", "example.com", "/", "blog">>,
           <<"not a url">> }

\* The orders in which a caller may write the members of the arguments object.
MemberOrders == { PlatformOrder, <<BLOG, SPEAKERDECK, TWITTER, GITHUB>> }

RECURSIVE Members(_, _)
Members(order, choice) ==
  IF order = <<>> THEN <<>>
  ELSE (IF choice[Head(order)] = Absent THEN <<>>
        ELSE << <<Head(order), choice[Head(order)]>> >>)
       \o Members(Tail(order), choice)

Requests ==
  {NoArguments} \cup
  { Object(Members(order, choice)) :
      order \in MemberOrders,
      choice \in { c \in [Platforms -> {Absent} \cup UNION {UrlPool(f) : f \in Platforms}] :
                     \A f \in Platforms : c[f] \in {Absent} \cup UrlPool(f) } }

(***************************************************************************)
(* State                                                                   *)
(***************************************************************************)

VARIABLES
  analysisCache,   \* index.ts: the Map from JSON.stringify(args) to a summary
  twitterToken,    \* process.env.TWITTER_TOKEN is set
  calls,           \* the tool calls, by the order in which they arrive
  firstSummary,    \* history: per cache key, the summary of the first analysis
                   \* of that key that completed
  mergeInput,      \* the PlatformAnalysis[] handed to the aggregator on its own
  mergeOutput,     \* what the aggregator returned for mergeInput
  extraction       \* one service applied on its own to upstream data

serverVars == <<analysisCache, twitterToken, calls, firstSummary>>
mergeVars == <<mergeInput, mergeOutput>>
extractVars == <<extraction>>
vars == <<serverVars, mergeVars, extractVars>>

CallIds == 1..MaxCalls

NoResponse == [kind |-> "none", code |-> "", text |-> <<>>]
ErrorResponse(code) == [kind |-> "error", code |-> code, text |-> <<>>]
TextResponse(text) == [kind |-> "text", code |-> "", text |-> text]

NoResult == [platforms |-> <<>>,
             techStack |-> mergeTechStacks(<<>>),
             personality |-> mergePersonalities(<<>>),
             summary |-> <<>>]

\* A call that has not arrived yet.  pc is the handler's position: "idle",
\* "analyzing" (suspended at the await of the extractor PlatformOrder[awaiting])
\* or "done".  ran, fetched, failed, consulted, stored and expected record
\* what the call did: the extractors it invoked, those that reached the
\* network, those that threw, whether analysisCache.has was evaluated,
\* whether analysisCache.set was executed, and the first completed summary of
\* the same key there was when the call arrived.
IdleCall ==
  [pc |-> "idle", args |-> NoArguments, awaiting |-> 0,
   platformAnalyses |-> <<>>, result |-> NoResult, response |-> NoResponse,
   ran |-> <<>>, fetched |-> <<>>, failed |-> <<>>,
   consulted |-> FALSE, stored |-> FALSE, expected |-> <<>>]

NoExtraction == [service |-> "", input |-> <<>>, output |-> <<>>]

NotMerged == [done |-> FALSE,
              techStack |-> mergeTechStacks(<<>>),
              personality |-> mergePersonalities(<<>>),
              summary |-> <<>>]

Init ==
  /\ analysisCache = <<>>
  /\ twitterToken \in BOOLEAN
  /\ calls = [i \in CallIds |-> IdleCall]
  /\ firstSummary = <<>>
  /\ mergeInput = <<>>
  /\ mergeOutput = NotMerged
  /\ extraction = NoExtraction

(***************************************************************************)
(* analyzer.ts: analyze, between two awaits                                *)
(***************************************************************************)

\* The platforms analyze will visit for this request, in its order.
Requested(args) == SelectSeq(PlatformOrder, LAMBDA f : Given(args, f))

\* A mutant of NextRequested: the platforms are visited from the last of the
\* order to the first.
NextRequestedBackwards(args, n) ==
  LET before == IF n = 0 THEN 1..Len(PlatformOrder) ELSE 1..(n - 1)
  IN IF \E m \in before : Given(args, PlatformOrder[m])
     THEN CHOOSE m \in before :
            /\ Given(args, PlatformOrder[m])
            /\ \A k \in before : k > m => ~Given(args, PlatformOrder[k])
     ELSE 0

\* The index in PlatformOrder of the first requested platform after index n;
\* 0 when analyze goes on to the merge.
NextRequested(args, n) ==
  IF \E m \in (n + 1)..Len(PlatformOrder) : Given(args, PlatformOrder[m])
  THEN CHOOSE m \in (n + 1)..Len(PlatformOrder) :
         /\ Given(args, PlatformOrder[m])
         /\ \A k \in (n + 1)..(m - 1) : ~Given(args, PlatformOrder[k])
  ELSE 0

\* The return value of analyze.
AnalysisResult(platformAnalyses) ==
  LET techStack   == mergeTechStacks(platformAnalyses)
      personality == mergePersonalities(platformAnalyses)
  IN [platforms |-> platformAnalyses,
      techStack |-> techStack,
      personality |-> personality,
      summary |-> generateSummary(platformAnalyses, techStack, personality)]

\* A mutant of ContinueAt: an extractor's error is not caught per platform, so
\* analyze skips the platforms after the failed one.
ContinueAtUnlessFailed(args, n, ok) == IF ok THEN NextRequested(args, n) ELSE 0

\* Where analyze goes on after the extractor of PlatformOrder[n] has settled:
\* each try/catch falls through to the next "if (request.<platform>)".
ContinueAt(args, n, ok) == NextRequested(args, n)

\* A mutant of ReachesNetwork: without an API client the Twitter service makes
\* its calls unauthenticated.
ReachesNetworkWithoutClient(platform, url, token) == UrlAccepted(platform, url)

\* service.analyze(url) gets as far as its first network call: the URL is
\* accepted, and the Twitter service has an API client.
ReachesNetwork(platform, url, token) ==
  UrlAccepted(platform, url) /\ (platform = TWITTER => token)

\* analyze calls the extractor of PlatformOrder[n] and suspends at its await.
Invoke(c, n, token) ==
  LET platform == PlatformOrder[n]
  IN [c EXCEPT !.pc = "analyzing",
               !.awaiting = n,
               !.ran = Append(@, platform),
               !.fetched = IF ReachesNetwork(platform, Field(c.args, platform), token)
                           THEN Append(@, platform) ELSE @]

\* A mutant of Finish: an analysis in which no platform succeeded is answered
\* with an error instead of the summary of the empty aggregate.
FinishFailsWhenEmpty(c) ==
  LET result == AnalysisResult(c.platformAnalyses)
  IN IF c.platformAnalyses = <<>>
     THEN [c EXCEPT !.pc = "done", !.awaiting = 0, !.result = result,
                    !.response = ErrorResponse("InternalError")]
     ELSE [c EXCEPT !.pc = "done", !.awaiting = 0, !.result = result,
                    !.stored = TRUE, !.response = TextResponse(result.summary)]

\* analyze returns; the handler stores the summary and answers with it.
Finish(c) ==
  LET result == AnalysisResult(c.platformAnalyses)
  IN [c EXCEPT !.pc = "done", !.awaiting = 0, !.result = result,
               !.stored = TRUE, !.response = TextResponse(result.summary)]

\* A mutant of MapSet: an entry that exists is kept, so the first summary
\* stored for a key stays.
MapSetIfAbsent(map, key, value) ==
  IF key \in DOMAIN map THEN map ELSE (key :> value) @@ map

\* Map.prototype.set
MapSet(map, key, value) == (key :> value) @@ map

\* The extractor call i awaits has settled: with a PlatformAnalysis (ok) or an
\* error; analyze goes on to the next extractor or to the merge.
Settled(i, ok, analysis) ==
  LET c    == calls[i]
      c1   == IF ok
              THEN [c EXCEPT !.platformAnalyses = Append(@, analysis)]
              ELSE [c EXCEPT !.failed = Append(@, PlatformOrder[c.awaiting])]
      next == ContinueAt(c.args, c.awaiting, ok)
      key  == cacheKey(c.args)
  IN IF next # 0
     THEN /\ calls' = [calls EXCEPT ![i] = Invoke(c1, next, twitterToken)]
          /\ UNCHANGED <<analysisCache, firstSummary>>
     ELSE /\ calls' = [calls EXCEPT ![i] = Finish(c1)]
          /\ analysisCache' = MapSet(analysisCache, key, Finish(c1).result.summary)
          /\ firstSummary' = IF key \in DOMAIN firstSummary THEN firstSummary
                             ELSE MapSet(firstSummary, key, Finish(c1).result.summary)

(***************************************************************************)
(* Actions                                                                 *)
(***************************************************************************)

Arrived == {i \in CallIds : calls[i].pc # "idle"}

RECURSIVE SumRuns(_)
SumRuns(n) ==
  IF n = 0 THEN 0
  ELSE SumRuns(n - 1)
       + (IF calls[n].ran # <<>> THEN Len(Requested(calls[n].args)) ELSE 0)

\* The extractor runs the analysed calls have asked for so far.
PlannedRuns == SumRuns(MaxCalls)

\* The handler gets past the validation and misses the cache.
WillAnalyze(args) ==
  /\ args.defined
  /\ ~NoneGiven(args)
  /\ FirstMalformed(args) = ""
  /\ cacheKey(args) \notin DOMAIN analysisCache

\* index.ts: the CallToolRequestSchema handler for "how-person", from its
\* start to its first await (or to its return, when it does not get there).
ToolCall(i, args) ==
  /\ calls[i].pc = "idle"
  /\ \A j \in 1..(i - 1) : calls[j].pc # "idle"
  /\ \/ \E j \in Arrived : calls[j].args = args
     \/ Cardinality({calls[j].args : j \in Arrived}) < MaxKeys
  /\ WillAnalyze(args) => PlannedRuns + Len(Requested(args)) <= MaxRuns
  /\ LET c == [IdleCall EXCEPT
                 !.args = args,
                 !.expected = IF args.defined /\ cacheKey(args) \in DOMAIN firstSummary
                              THEN <<firstSummary[cacheKey(args)]>> ELSE <<>>]
     IN calls' = [calls EXCEPT ![i] =
          IF ~args.defined
          THEN \* args.github on undefined throws a TypeError
               [c EXCEPT !.pc = "done", !.response = ErrorResponse("TypeError")]
          ELSE IF NoneGiven(args)
          THEN [c EXCEPT !.pc = "done", !.response = ErrorResponse("InvalidParams")]
          ELSE IF FirstMalformed(args) # ""
          THEN [c EXCEPT !.pc = "done", !.response = ErrorResponse("InvalidParams")]
          ELSE IF cacheKey(args) \in DOMAIN analysisCache
          THEN [c EXCEPT !.pc = "done", !.consulted = TRUE,
                         !.response = TextResponse(analysisCache[cacheKey(args)])]
          ELSE Invoke([c EXCEPT !.consulted = TRUE],
                      NextRequested(args, 0), twitterToken)]
  /\ UNCHANGED <<analysisCache, twitterToken, firstSummary>>

\* The awaited extractor throws: its URL is not accepted, or a network call
\* fails.  PersonAnalyzer.analyze catches and logs the error.
ExtractorFails(i) ==
  /\ calls[i].pc = "analyzing"
  /\ LET platform == PlatformOrder[calls[i].awaiting]
         url      == Field(calls[i].args, platform)
     IN \/ ~UrlAccepted(platform, url)
        \/ ReachesNetwork(platform, url, twitterToken)
  /\ Settled(i, FALSE, <<>>)
  /\ UNCHANGED twitterToken

\* The awaited extractor returns the analysis of upstream data version v.
ExtractorReturns(i, v) ==
  /\ calls[i].pc = "analyzing"
  /\ LET platform == PlatformOrder[calls[i].awaiting]
         url      == Field(calls[i].args, platform)
     IN /\ ReachesNetwork(platform, url, twitterToken)
        /\ Settled(i, TRUE, Analysis(platform, url, v))
  /\ UNCHANGED twitterToken

\* TwitterService.analyze without an API client returns an analysis of no data.
TwitterSkipsApi(i) ==
  /\ calls[i].pc = "analyzing"
  /\ PlatformOrder[calls[i].awaiting] = TWITTER
  /\ ~twitterToken
  /\ UrlAccepted(TWITTER, Field(calls[i].args, TWITTER))
  /\ Settled(i, TRUE, TwitterAnalysisNoClient(Field(calls[i].args, TWITTER)))
  /\ UNCHANGED twitterToken

Next ==
  \/ \E i \in CallIds, args \in Requests : ToolCall(i, args) /\ UNCHANGED <<mergeVars, extractVars>>
  \/ \E i \in CallIds : ExtractorFails(i) /\ UNCHANGED <<mergeVars, extractVars>>
  \/ \E i \in CallIds, v \in Versions : ExtractorReturns(i, v) /\ UNCHANGED <<mergeVars, extractVars>>
  \/ \E i \in CallIds : TwitterSkipsApi(i) /\ UNCHANGED <<mergeVars, extractVars>>

Spec == Init /\ [][Next]_vars

(***************************************************************************)
(* The aggregator on its own: mergeTechStacks and mergePersonalities       *)
(* applied to any sequence of at most MaxAnalyses platform analyses.       *)
(***************************************************************************)

MaxAnalyses == 3

TechChoices ==
  { [languages |-> <<>>, frameworks |-> <<>>, tools |-> <<>>, topics |-> <<>>],
    [languages |-> <<<<"python", 3>>>>, frameworks |-> <<<<"react", 1>>>>,
     tools |-> <<>>, topics |-> <<"web", "ai">>],
    [languages |-> <<<<"go", 1>>, <<"python", 2>>>>, frameworks |-> <<>>,
     tools |-> <<<<"docker", 2>>>>, topics |-> <<"ai">>],
    [languages |-> <<<<"python", 1>>, <<"go", 4>>, <<"rust", 1>>, <<"ruby", 3>>>>,
     frameworks |-> <<<<"react", 2>>>>,
     tools |-> <<<<"docker", 1>>, <<"git", 1>>>>, topics |-> <<"cloud", "web">>] }

PersonalityChoices ==
  { [interests |-> <<>>, activities |-> <<>>,
     communication |-> [style |-> <<>>, frequency |-> <<>>, topics |-> <<>>],
     workStyle |-> <<>>],
    [interests |-> <<"ai", "web">>, activities |-> <<"OSS developer", "3 repos">>,
     communication |-> [style |-> <<<<"kojin", "teki na kaihatsu">>>>,
                        frequency |-> <<>>, topics |-> <<>>],
     workStyle |-> <<>>],
    [interests |-> <<"web">>, activities |-> <<"3 repos", "OSS developer", "3 repos">>,
     communication |-> [style |-> <<<<"kanketsu", "na", "hasshin">>>>,
                        frequency |-> <<Rat(10, 1)>>, topics |-> <<<<"web", "ai">>>>],
     workStyle |-> <<"collaborative">>],
    [interests |-> <<"cloud", "ai">>, activities |-> <<"speaker">>,
     communication |-> [style |-> <<InsufficientInfo>>,
                        frequency |-> <<RatZero>>, topics |-> <<<<>>>>],
     workStyle |-> <<"solo">>],
    [interests |-> <<"ai">>, activities |-> <<"speaker", "OSS developer">>,
     communication |-> [style |-> <<<<"gijutsu", "teki na", "kaisetsu">>>>,
                        frequency |-> <<Rat(1, 4)>>, topics |-> <<<<"ai", "cloud">>>>],
     workStyle |-> <<"collaborative">>] }

InitMerge ==
  /\ analysisCache = <<>>
  /\ twitterToken = FALSE
  /\ calls = [i \in CallIds |-> IdleCall]
  /\ firstSummary = <<>>
  /\ mergeInput = <<>>
  /\ mergeOutput = NotMerged
  /\ extraction = NoExtraction

\* One more platform analysis is pushed on the list the aggregator will get.
PushAnalysis(techStack, personality) ==
  /\ ~mergeOutput.done
  /\ Len(mergeInput) < MaxAnalyses
  /\ mergeInput' = Append(mergeInput,
                          [platform |-> PlatformOrder[Len(mergeInput) + 1],
                           url |-> <<>>,
                           techStack |-> techStack,
                           personality |-> personality])
  /\ UNCHANGED <<mergeOutput, serverVars, extractVars>>

\* analyze, lines 71-75: the two merges of the list and the summary of them.
Merge ==
  /\ ~mergeOutput.done
  /\ LET techStack   == mergeTechStacks(mergeInput)
         personality == mergePersonalities(mergeInput)
     IN mergeOutput' = [done |-> TRUE,
                        techStack |-> techStack,
                        personality |-> personality,
                        summary |-> generateSummary(mergeInput, techStack, personality)]
  /\ UNCHANGED <<mergeInput, serverVars, extractVars>>

NextMerge ==
  \/ \E t \in TechChoices, p \in PersonalityChoices : PushAnalysis(t, p)
  \/ Merge

SpecMerge == InitMerge /\ [][NextMerge]_vars

(***************************************************************************)
(* One service on its own: the analysis it builds from upstream data.      *)
(***************************************************************************)

\* The number of tweets of a non-empty timeline.
TweetCount == 10

ProfileUrl == <<"https", "://", "x.com", "/", "alice">>

UserDataChoices ==
  { NoUserData,
    <<[description |-> "", followers |-> 100]>>,
    <<[description |-> "OSS developer", followers |-> 5000]>>,
    <<[description |-> "speaker", followers |-> 5001]>> }

\* A timeline of TweetCount tweets, each with a text of the given length: the
\* first retweets of them are retweets, the last replies of them are replies,
\* the first has keywords, hashtags and a mention, the second a hashtag but no
\* text when textless; tweet k is of day k * span when span > 0.
Timeline(retweets, replies, length, span, textless) ==
  [k \in 1..TweetCount |->
     [length   |-> IF textless /\ k = 2 THEN 0 ELSE length,
      retweet  |-> k <= retweets,
      reply    |-> k > TweetCount - replies,
      keywords |-> IF k = 1 THEN <<"react", "web">> ELSE <<>>,
      hashtags |-> IF k = 1 THEN <<"reactjs", "cats">>
                   ELSE IF k = 2 THEN <<"docker", "cats">> ELSE <<>>,
      mentions |-> IF k = 1 THEN <<"github", "bob">> ELSE <<>>,
      created  |-> IF span > 0 /\ k # 3 THEN <<k * span>> ELSE <<>>]]

TweetChoices ==
  {<<>>} \cup
  { Timeline(retweets, replies, length, span, textless) :
      retweets \in {0, 7, 8}, replies \in {0, 5, 6},
      length \in {99, 100, 150, 200, 201}, span \in {0, 2}, textless \in BOOLEAN }

(***************************************************************************)
(* twitter.ts: GitHubService                                               *)
(*                                                                         *)
(* user is [bio, company] ("": none).  A repository of the listing is      *)
(* [fork, topics, languages, descriptionLength, stargazers,                *)
(* contributorsUrlLength, contributors]: languages is what listLanguages   *)
(* answers for it, <<tally>>, or <<>> when that request fails;             *)
(* descriptionLength and contributorsUrlLength are the lengths of the      *)
(* strings description and contributors_url (0: none); contributors is the *)
(* number of people who contributed to it, which the listing does not tell.*)
(***************************************************************************)

\* frameworkList.some(fw => topic.includes(fw)), for the topics of the model
FrameworkTopics == {"react", "rails", "django"}

\* toolList.some(tool => topic.includes(tool)), for the topics of the model
ToolTopics == {"docker", "git", "webpack"}

\* GitHubService.categorizeTopics
categorizeTopics(topic, acc) ==
  IF topic \in FrameworkTopics
  THEN [acc EXCEPT !.frameworks = AddScore(@, topic, 1)]
  ELSE IF topic \in ToolTopics
       THEN [acc EXCEPT !.tools = AddScore(@, topic, 1)]
       ELSE acc

\* repo.topics.forEach(topic => { topics.add(topic); categorizeTopics(...) })
RECURSIVE CollectTopics(_, _)
CollectTopics(acc, topics) ==
  IF topics = <<>> THEN acc
  ELSE CollectTopics(categorizeTopics(Head(topics), [acc EXCEPT !.topics = SetAdd(@, Head(topics))]),
                     Tail(topics))

\* A mutant of RepoStep: a failed language request ends the work on the
\* repository, its topics included.
RepoStepSkipsFailed(acc, repo) ==
  IF repo.fork \/ repo.languages = <<>> THEN acc
  ELSE CollectTopics([acc EXCEPT !.languages = AddTally(@, repo.languages[1])], repo.topics)

\* The body of the loop over repos for one repository.
RepoStep(acc, repo) ==
  IF repo.fork THEN acc
  ELSE LET counted == IF repo.languages # <<>>
                      THEN [acc EXCEPT !.languages = AddTally(@, repo.languages[1])]
                      ELSE acc
       IN CollectTopics(counted, repo.topics)

\* The loop over repos from the tallies acc on: the loop over the first half
\* of the repositories, and from its tallies on the loop over the second.
RECURSIVE RepoLoopFrom(_, _)
RepoLoopFrom(acc, repos) ==
  IF repos = <<>> THEN acc
  ELSE IF Len(repos) = 1 THEN RepoStep(acc, repos[1])
  ELSE LET half == Len(repos) \div 2
           left == RepoLoopFrom(acc, SubSeq(repos, 1, half))
       IN IF left = left THEN RepoLoopFrom(left, SubSeq(repos, half + 1, Len(repos))) ELSE left

RepoLoop(repos) ==
  RepoLoopFrom([languages |-> <<>>, frameworks |-> <<>>, tools |-> <<>>, topics |-> <<>>], repos)

\* GitHubService.analyzeCommStyle
GitHubCommStyle(repos) ==
  LET hasDetailedReadmes      == \E k \in 1..Len(repos) : repos[k].descriptionLength > 100
      hasMultipleContributors == \E k \in 1..Len(repos) : repos[k].contributorsUrlLength > 1
      hasManyStars            == \E k \in 1..Len(repos) : repos[k].stargazers > 50
  IN IF hasManyStars /\ hasDetailedReadmes
     THEN <<"oopun de", "shousai", "na dokyumento wo juushi suru sutairu">>
     ELSE IF hasMultipleContributors THEN <<"kyouchou", "teki na sutairu">>
     ELSE IF Len(repos) > 20
          THEN <<"ooku no purojekuto ni torikumu tankyuushin ousei na sutairu">>
          ELSE <<"kojin", "teki na kaihatsu ni shuuchuu suru sutairu">>

\* GitHubService.analyze after the user and repository requests: the
\* PlatformAnalysis built from them and from the language requests.
GitHubBuild(url, user, repos) ==
  LET acc == RepoLoop(repos)
  IN PlatformAnalysis(GITHUB, url, acc.languages, acc.frameworks, acc.tools, acc.topics,
       Take(acc.topics, 10),
       SelectSeq(<<user.bio,
                   ToString(Len(repos)) \o " ko no ripojitori wo shoyuu",
                   IF user.company # "" THEN user.company \o " ni shozoku" ELSE "">>,
                 LAMBDA a : a # ""),
       <<GitHubCommStyle(repos)>>, <<>>, <<>>, <<>>)

MaxRepos == 3

UserChoices ==
  { [bio |-> "", company |-> ""],
    [bio |-> " ", company |-> "ACME"],
    [bio |-> "OSS developer", company |-> ""] }

RepoChoices ==
  { [fork |-> FALSE, topics |-> <<"react", "docker">>,
     languages |-> << <<<<"python", 300>>, <<"go", 50>>>> >>,
     descriptionLength |-> 101, stargazers |-> 51, contributorsUrlLength |-> 0, contributors |-> 1],
    [fork |-> FALSE, topics |-> <<"cli", "react">>, languages |-> <<>>,
     descriptionLength |-> 100, stargazers |-> 50, contributorsUrlLength |-> 48, contributors |-> 1],
    [fork |-> TRUE, topics |-> <<"rails">>, languages |-> << <<<<"ruby", 900>>>> >>,
     descriptionLength |-> 0, stargazers |-> 0, contributorsUrlLength |-> 0, contributors |-> 1],
    [fork |-> FALSE, topics |-> <<>>, languages |-> << <<<<"python", 20>>>> >>,
     descriptionLength |-> 0, stargazers |-> 0, contributorsUrlLength |-> 1, contributors |-> 3],
    [fork |-> FALSE, topics |-> <<"git">>, languages |-> << <<>> >>,
     descriptionLength |-> 150, stargazers |-> 10, contributorsUrlLength |-> 0, contributors |-> 1] }

\* A repository that the rules of the analysis pass over.
PlainRepo ==
  [fork |-> FALSE, topics |-> <<>>, languages |-> << <<>> >>,
   descriptionLength |-> 0, stargazers |-> 0, contributorsUrlLength |-> 0, contributors |-> 1]

\* The listings: up to MaxRepos repositories, followed by none or by plain
\* ones that make the listing longer than 20.
RepoListings ==
  { lead \o [k \in 1..plain |-> PlainRepo] :
      lead \in UNION {[1..n -> RepoChoices] : n \in 0..MaxRepos}, plain \in {0, 18, 19} }

GitHubUrl == <<"https", "://", "github.com", "/", "alice">>

(***************************************************************************)
(* speakerdeck.ts: SpeakerDeckService.analyzeCommStyle                     *)
(*                                                                         *)
(* A presentation is [titleLength, descriptionLength, technical]: the      *)
(* lengths of its title and description, and whether the lower-cased title *)
(* and description include one of techKeywords.                            *)
(***************************************************************************)

\* presentations.reduce((sum, p) => sum + p.title.length, 0)
RECURSIVE TitleTotal(_)
TitleTotal(presentations) ==
  IF presentations = <<>> THEN 0
  ELSE presentations[1].titleLength + TitleTotal(Tail(presentations))

\* presentations.reduce((sum, p) => sum + (p.description?.length || 0), 0)
RECURSIVE DescriptionTotal(_)
DescriptionTotal(presentations) ==
  IF presentations = <<>> THEN 0
  ELSE presentations[1].descriptionLength + DescriptionTotal(Tail(presentations))

\* A mutant of SpeakerDeckCommStyle: the empty list is not set apart and goes
\* through the rules like any other.
SpeakerDeckCommStyleNoGuard(presentations) ==
  LET count             == Len(presentations)
      techPresentations == SelectSeq(presentations, LAMBDA q : q.technical)
  IN IF count > 20 THEN <<"sekkyokuteki ni chishiki wo", "kyouyuu", "suru sutairu">>
     ELSE IF DescriptionTotal(presentations) > 200 * count
          THEN <<"shousai", "na setsumei wo konomu sutairu">>
     ELSE IF TitleTotal(presentations) > 50 * count
          THEN <<"gutaiteki na taitoru de naiyou wo meikaku ni suru sutairu">>
     ELSE IF Len(techPresentations) * 10 > 7 * count
          THEN <<"gijutsu", "teki na naiyou ni tokka shita sutairu">>
     ELSE <<"tayou na topikku wo", "baransu", "yoku happyou suru sutairu">>

\* SpeakerDeckService.analyzeCommStyle; an average total / count > x is
\* total > x * count
SpeakerDeckCommStyle(presentations) ==
  IF Len(presentations) = 0 THEN InsufficientInfo
  ELSE LET count             == Len(presentations)
           techPresentations == SelectSeq(presentations, LAMBDA q : q.technical)
       IN IF count > 20 THEN <<"sekkyokuteki ni chishiki wo", "kyouyuu", "suru sutairu">>
          ELSE IF DescriptionTotal(presentations) > 200 * count
               THEN <<"shousai", "na setsumei wo konomu sutairu">>
          ELSE IF TitleTotal(presentations) > 50 * count
               THEN <<"gutaiteki na taitoru de naiyou wo meikaku ni suru sutairu">>
          ELSE IF Len(techPresentations) * 10 > 7 * count
               THEN <<"gijutsu", "teki na naiyou ni tokka shita sutairu">>
          ELSE <<"tayou na topikku wo", "baransu", "yoku happyou suru sutairu">>

\* A list of count presentations with the given title and description
\* lengths, the first one's longer by extra, the first technical of them
\* technical.
Deck(count, titleLength, descriptionLength, extra, technical) ==
  [k \in 1..count |->
     [titleLength       |-> titleLength + (IF k = 1 THEN extra ELSE 0),
      descriptionLength |-> descriptionLength + (IF k = 1 THEN extra ELSE 0),
      technical         |-> k <= technical]]

DeckChoices ==
  { Deck(count, titleLength, descriptionLength, extra, technical) :
      count \in {0, 1, 10, 20, 21}, titleLength \in {49, 50}, descriptionLength \in {100, 199, 200},
      extra \in {0, 10}, technical \in {0, 7, 8} }

(***************************************************************************)
(* speakerdeck.ts: inferTechStack of SpeakerDeckService and of BlogService *)
(*                                                                         *)
(* A presentation is [title, description] and an article [title, content], *)
(* trimmed texts.  A tally is a sequence of <<word, count>> in insertion   *)
(* order, a Set of topics a sequence without duplicates.                   *)
(***************************************************************************)

languageList ==
  <<"javascript", "typescript", "python", "java", "ruby", "go", "rust", "c#", "php",
    "swift", "kotlin", "scala", "haskell", "clojure", "elixir", "erlang",
    "c", "c++", "objective-c", "dart", "lua", "perl", "r">>

frameworkList ==
  <<"react", "vue", "angular", "svelte", "next", "nuxt", "gatsby",
    "express", "koa", "nest", "fastify", "hapi",
    "django", "flask", "fastapi", "spring", "rails", "laravel",
    "tensorflow", "pytorch", "keras">>

toolList ==
  <<"webpack", "babel", "eslint", "prettier", "jest", "mocha", "cypress",
    "docker", "kubernetes", "aws", "azure", "gcp", "firebase",
    "graphql", "apollo", "redux", "mobx", "zustand",
    "git", "github", "gitlab", "bitbucket">>

techKeywords ==
  <<"javascript", "typescript", "python", "java", "ruby", "go", "rust", "c#", "php",
    "react", "vue", "angular", "svelte", "node", "deno", "rails", "django", "laravel",
    "aws", "azure", "gcp", "cloud", "docker", "kubernetes", "devops", "cicd",
    "ai", "ml", "machine learning", "deep learning", "data", "analytics",
    "web", "mobile", "frontend", "backend", "fullstack", "database", "sql", "nosql",
    "security", "blockchain", "crypto", "iot", "ar", "vr",
    "architecture", "microservices", "serverless", "testing", "agile", "scrum",
    "design", "ux", "ui", "accessibility", "performance", "optimization">>

\* String.prototype.includes
Includes(text, word) ==
  \E i \in 1..(Len(text) - Len(word) + 1) : SubSeq(text, i, i + Len(word) - 1) = word

\* The lower-case letter of an upper-case one; any other character is kept.
LowerCaseOf(char) ==
  LET upper == "ABCDEFGHIJKLMNOPQRSTUVWXYZ"
      lower == "abcdefghijklmnopqrstuvwxyz"
  IN IF \E i \in 1..26 : SubSeq(upper, i, i) = char
     THEN LET i == CHOOSE j \in 1..26 : SubSeq(upper, j, j) = char
          IN SubSeq(lower, i, i)
     ELSE char

\* String.prototype.toLowerCase: every character in lower case, the halves
\* of the text one after the other.
RECURSIVE toLowerCase(_)
toLowerCase(text) ==
  IF Len(text) = 0 THEN ""
  ELSE IF Len(text) = 1 THEN LowerCaseOf(text)
  ELSE LET half == Len(text) \div 2
       IN toLowerCase(SubSeq(text, 1, half)) \o toLowerCase(SubSeq(text, half + 1, Len(text)))

\* (presentation.title + ' ' + presentation.description).toLowerCase()
PresentationText(presentation) ==
  toLowerCase(presentation.title \o " " \o presentation.description)

\* (article.title + ' ' + article.content).toLowerCase()
ArticleText(article) == toLowerCase(article.title \o " " \o article.content)

\* for each text: for (const keyword of techKeywords)
\*   if (text.includes(keyword)) topics.add(keyword)
RECURSIVE TopicsOfTexts(_, _)
TopicsOfTexts(topics, texts) ==
  IF texts = <<>> THEN topics
  ELSE LET found == SelectSeq(techKeywords, LAMBDA keyword : Includes(Head(texts), keyword))
           added == AddAll(topics, found)
       IN IF added = added THEN TopicsOfTexts(added, Tail(texts)) ELSE added

\* SpeakerDeckService.extractTopicsFromPresentations
extractTopicsFromPresentations(presentations) ==
  TopicsOfTexts(<<>>, [k \in 1..Len(presentations) |-> PresentationText(presentations[k])])

\* const tag = $(element).text().trim().toLowerCase(); if (tag && tag.length > 1) topics.add(tag)
RECURSIVE TopicsOfTags(_, _)
TopicsOfTags(topics, tags) ==
  IF tags = <<>> THEN topics
  ELSE LET tag   == toLowerCase(Head(tags))
           added == IF Len(tag) > 1 THEN SetAdd(topics, tag) ELSE topics
       IN IF added = added THEN TopicsOfTags(added, Tail(tags)) ELSE added

\* BlogService.extractTopicsFromBlog; tags are the trimmed texts of the
\* elements that the tag selectors match, in the order of the loops.
extractTopicsFromBlog(tags, articles) ==
  TopicsOfTexts(TopicsOfTags(<<>>, tags), [k \in 1..Len(articles) |-> ArticleText(articles[k])])

NoTallies == [languages |-> <<>>, frameworks |-> <<>>, tools |-> <<>>]

\* for (const word of list) if (text.includes(word)) tally[word] = (tally[word] || 0) + 1
CountIncluded(tally, text, list) ==
  LET included == SelectSeq(list, LAMBDA word : Includes(text, word))
  IN AddTally(tally, [k \in 1..Len(included) |-> <<included[k], 1>>])

\* The detection of languages, frameworks and tools in one text.
DetectIn(acc, text) ==
  [languages  |-> CountIncluded(acc.languages, text, languageList),
   frameworks |-> CountIncluded(acc.frameworks, text, frameworkList),
   tools      |-> CountIncluded(acc.tools, text, toolList)]

\* The loop over the presentations or articles.
RECURSIVE DetectLoop(_, _)
DetectLoop(acc, texts) ==
  IF texts = <<>> THEN acc
  ELSE LET detected == DetectIn(acc, Head(texts))
       IN IF detected = detected THEN DetectLoop(detected, Tail(texts)) ELSE detected

\* list.find(word => topicLower.includes(word)): <<>> for undefined
Find(list, topicLower) == Take(SelectSeq(list, LAMBDA word : Includes(topicLower, word)), 1)

\* A mutant of FoldTopic: a topic counts for every entry of every list that
\* it includes.
FoldTopicEveryEntry(acc, topic) == DetectIn(acc, toLowerCase(topic))

\* The body of the loop over topics for one topic.
FoldTopic(acc, topic) ==
  LET topicLower == toLowerCase(topic)
      lang       == Find(languageList, topicLower)
      fw         == Find(frameworkList, topicLower)
      tool       == Find(toolList, topicLower)
  IN IF lang # <<>> THEN [acc EXCEPT !.languages = AddScore(@, lang[1], 1)]
     ELSE IF fw # <<>> THEN [acc EXCEPT !.frameworks = AddScore(@, fw[1], 1)]
     ELSE IF tool # <<>> THEN [acc EXCEPT !.tools = AddScore(@, tool[1], 1)]
     ELSE acc

\* for (const topic of topics) { ... }
RECURSIVE FoldTopics(_, _)
FoldTopics(acc, topics) ==
  IF topics = <<>> THEN acc
  ELSE LET folded == FoldTopic(acc, Head(topics))
       IN IF folded = folded THEN FoldTopics(folded, Tail(topics)) ELSE folded

\* SpeakerDeckService.inferTechStack, up to the loop over topics
DetectInPresentations(presentations) ==
  DetectLoop(NoTallies, [k \in 1..Len(presentations) |-> PresentationText(presentations[k])])

\* SpeakerDeckService.inferTechStack
inferTechStack(presentations, topics) ==
  FoldTopics(DetectInPresentations(presentations), topics)

\* The test of a code block for a language: it includes one of the general
\* keywords, and the features of the language.
HasFeaturesOf(lang, code) ==
  /\ \E word \in {"function", "class", "import", "from", "def ", "var ", "const ", "let "} :
       Includes(code, word)
  /\ \/ lang = "javascript" /\ (Includes(code, "const ") \/ Includes(code, "let ") \/ Includes(code, "function"))
     \/ lang = "typescript" /\ (Includes(code, ":") /\ Includes(code, "interface"))
     \/ lang = "python" /\ (Includes(code, "def ") \/ Includes(code, "import "))
     \/ lang = "java" /\ (Includes(code, "public class") \/ Includes(code, "private "))
     \/ lang = "ruby" /\ (Includes(code, "def ") \/ Includes(code, "end"))
     \/ lang = "go" /\ (Includes(code, "func ") \/ Includes(code, "package "))

\* for (const code of codeBlocks) for (const lang of languageList) ...
RECURSIVE CountCodeBlocks(_, _)
CountCodeBlocks(languages, codeBlocks) ==
  IF codeBlocks = <<>> THEN languages
  ELSE LET code    == toLowerCase(Head(codeBlocks))
           seen    == SelectSeq(languageList, LAMBDA lang : HasFeaturesOf(lang, code))
           counted == AddTally(languages, [k \in 1..Len(seen) |-> <<seen[k], 1>>])
       IN IF counted = counted THEN CountCodeBlocks(counted, Tail(codeBlocks)) ELSE counted

\* BlogService.inferTechStack, up to the loop over topics
DetectInBlog(codeBlocks, articles) ==
  DetectLoop([NoTallies EXCEPT !.languages = CountCodeBlocks(<<>>, codeBlocks)],
             [k \in 1..Len(articles) |-> ArticleText(articles[k])])

\* BlogService.inferTechStack
BlogInferTechStack(codeBlocks, articles, topics) ==
  FoldTopics(DetectInBlog(codeBlocks, articles), topics)

(***************************************************************************)
(* speakerdeck.ts: BlogService.analyze, article discovery                  *)
(*                                                                         *)
(* A document is [blocks, links].  blocks are its elements that match some *)
(* article selector, in document order: [matches, heading, text, href,     *)
(* date] with the selectors the element matches, the trimmed text of its   *)
(* first h1/h2/h3 ("": none), its trimmed text, the href of its first      *)
(* anchor (<<>>: none) and its date string.  links are its anchors:        *)
(* [href, text, length] with the href attribute as a token sequence        *)
(* (<<>>: none), the trimmed anchor text and the length of that text.      *)
(***************************************************************************)

articleSelectors ==
  <<"article", ".post", ".entry", ".blog-post", ".blog-entry",
    ".post-content", ".entry-content", ".article-content">>

PageUrl == <<"https", "://", "example.com", "/", "blog", "/", "index.html">>

\* href.includes('/')
IncludesSlash(href) == \E k \in 1..Len(href) : href[k] \in {"/", "://"}

\* href.startsWith('http')
StartsWithHttp(href) == Len(href) > 0 /\ href[1] \in {"http", "https"}

\* The index of the last "/" token of a URL.
LastSlash(url) == CHOOSE k \in 1..Len(url) : url[k] = "/" /\ \A j \in (k + 1)..Len(url) : url[j] # "/"

\* BlogService.normalizeUrl: new URL(href, baseUrl).toString() for an absolute
\* href, a path from the root, a path from the directory of the base, or none.
normalizeUrl(href, baseUrl) ==
  IF href = <<>> THEN baseUrl
  ELSE IF StartsWithHttp(href) THEN href
  ELSE IF href[1] = "/" THEN SubSeq(baseUrl, 1, 3) \o href
  ELSE SubSeq(baseUrl, 1, LastSlash(baseUrl)) \o href

\* $(selector).each(...): the articles of the elements that match selector
RECURSIVE ArticlesOf(_, _, _)
ArticlesOf(blocks, selector, url) ==
  IF blocks = <<>> THEN <<>>
  ELSE LET element == Head(blocks)
       IN (IF selector \in element.matches /\ element.heading # "" /\ element.text # ""
           THEN <<[title |-> element.heading, url |-> normalizeUrl(element.href, url),
                   content |-> element.text, date |-> <<element.date>>]>>
           ELSE <<>>)
          \o ArticlesOf(Tail(blocks), selector, url)

\* Some element of the document matches the selector.
Matches(blocks, selector) == \E k \in 1..Len(blocks) : selector \in blocks[k].matches

\* A mutant of SelectorArticles: the loop ends at the first selector that
\* matches an element, whether an article came of it or not.
SelectorArticlesFirstMatch(blocks, url, n) ==
  LET first == IF \E k \in n..Len(articleSelectors) : Matches(blocks, articleSelectors[k])
               THEN CHOOSE k \in n..Len(articleSelectors) :
                      /\ Matches(blocks, articleSelectors[k])
                      /\ \A j \in n..(k - 1) : ~Matches(blocks, articleSelectors[j])
               ELSE Len(articleSelectors)
  IN [articles |-> ArticlesOf(blocks, articleSelectors[first], url),
      tried    |-> SubSeq(articleSelectors, n, first)]

\* The loop over articleSelectors[n..]: the articles found and the selectors
\* tried, up to the break.
RECURSIVE SelectorArticles(_, _, _)
SelectorArticles(blocks, url, n) ==
  IF n > Len(articleSelectors) THEN [articles |-> <<>>, tried |-> <<>>]
  ELSE LET found == ArticlesOf(blocks, articleSelectors[n], url)
       IN IF Len(found) > 0
          THEN [articles |-> found, tried |-> <<articleSelectors[n]>>]
          ELSE LET rest == SelectorArticles(blocks, url, n + 1)
               IN [articles |-> rest.articles, tried |-> <<articleSelectors[n]>> \o rest.tried]

\* A mutant of IsArticleLink: the test of the href's start is not negated, so
\* the absolute links count and the relative ones do not.
IsArticleLinkAbsolute(link) ==
  /\ link.href # <<>> /\ link.text # ""
  /\ IncludesSlash(link.href)
  /\ link.length > 20
  /\ StartsWithHttp(link.href)

\* href && text && href.includes('/') && text.length > 20 && !href.startsWith('http')
IsArticleLink(link) ==
  /\ link.href # <<>> /\ link.text # ""
  /\ IncludesSlash(link.href)
  /\ link.length > 20
  /\ ~StartsWithHttp(link.href)

\* $('a').each(...): the stubs of the links that look like articles
RECURSIVE LinkArticles(_, _)
LinkArticles(links, url) ==
  IF links = <<>> THEN <<>>
  ELSE (IF IsArticleLink(Head(links))
        THEN <<[title |-> Head(links).text, url |-> normalizeUrl(Head(links).href, url),
                content |-> Head(links).text, date |-> <<>>]>>
        ELSE <<>>)
       \o LinkArticles(Tail(links), url)

\* BlogService.analyze, lines 320-372: the articles of a document.
DiscoverArticles(document, url) ==
  LET bySelector == SelectorArticles(document.blocks, url, 1)
  IN [articles |-> IF Len(bySelector.articles) = 0
                   THEN LinkArticles(document.links, url)
                   ELSE bySelector.articles,
      tried    |-> bySelector.tried]

(***************************************************************************)
(* speakerdeck.ts: BlogService.estimatePostFrequency                       *)
(*                                                                         *)
(* An article is [date] here: <<>> (no date property, as in the stubs made *)
(* from links) or <<string>>.  The date strings of the model are ISO days  *)
(* far from the ends of their months, so that the local year and month of  *)
(* the Date do not depend on the time zone, and one text that is no date.  *)
(***************************************************************************)

\* new Date(string): <<>> for an Invalid Date (getTime() is NaN), otherwise
\* <<[time, year, month]>> with getTime() counted in days from 2023-11-20,
\* getFullYear() and getMonth() + 1.
NewDate(string) ==
  CASE string = "2023-11-20" -> <<[time |-> 0,   year |-> 2023, month |-> 11]>>
    [] string = "2024-01-10" -> <<[time |-> 51,  year |-> 2024, month |-> 1]>>
    [] string = "2024-01-20" -> <<[time |-> 61,  year |-> 2024, month |-> 1]>>
    [] string = "2024-03-10" -> <<[time |-> 111, year |-> 2024, month |-> 3]>>
    [] OTHER                 -> <<>>

\* articles.filter(a => a.date).map(a => ({ date: new Date(a.date || '') }));
\* a.date is truthy when it is defined and is not ''
ArticlesWithDates(articles) ==
  LET dated == SelectSeq(articles, LAMBDA a : a.date # <<>> /\ a.date[1] # "")
  IN [k \in 1..Len(dated) |-> NewDate(dated[k].date[1])]

\* articlesWithDates.sort((a, b) => a.date.getTime() - b.date.getTime()): the
\* pairs <<first, last>> the sorted array can have.  The comparison of an
\* Invalid Date with any date is NaN, which sort takes for 0 (equal): the
\* array is left as it is when its valid dates are all of one time, and
\* otherwise the comparator is not a consistent one and the order of the
\* result is implementation-defined.
SortedEnds(dates) ==
  LET all   == 1..Len(dates)
      valid == {k \in all : dates[k] # <<>>}
  IN IF valid = all
     THEN {<<dates[CHOOSE k \in all : \A j \in all : dates[k][1].time <= dates[j][1].time],
             dates[CHOOSE k \in all : \A j \in all : dates[j][1].time <= dates[k][1].time]>>}
     ELSE IF \A j, k \in valid : dates[j][1].time = dates[k][1].time
          THEN {<<dates[1], dates[Len(dates)]>>}
          ELSE {<<dates[p[1]], dates[p[2]]>> : p \in {q \in all \X all : q[1] # q[2]}}

\* A mutant of MonthsDiff: the span is counted in days, as for the tweets.
DaysDiff(oldestDate, newestDate) == newestDate.time - oldestDate.time

\* (newestDate.getFullYear() - oldestDate.getFullYear()) * 12 +
\* (newestDate.getMonth() - oldestDate.getMonth())
MonthsDiff(oldestDate, newestDate) ==
  (newestDate.year - oldestDate.year) * 12 + (newestDate.month - oldestDate.month)

\* BlogService.estimatePostFrequency: the values it can return, one for each
\* pair of ends of the sorted array.  monthsDiff is NaN, and monthsDiff > 0
\* false, when one of the ends is an Invalid Date.
estimatePostFrequency(articles) ==
  LET articlesWithDates == ArticlesWithDates(articles)
  IN IF Len(articlesWithDates) < 2 THEN {Rat(Len(articles), 12)}
     ELSE { IF ends[1] = <<>> \/ ends[2] = <<>> THEN Rat(Len(articles), 1)
            ELSE IF MonthsDiff(ends[1][1], ends[2][1]) > 0
                 THEN Rat(Len(articles), MonthsDiff(ends[1][1], ends[2][1]))
                 ELSE Rat(Len(articles), 1) :
            ends \in SortedEnds(articlesWithDates) }

MaxBlocks == 2
MaxLinks == 2

BlockChoices ==
  { [matches |-> {"article"}, heading |-> "", text |-> "no heading here", href |-> <<>>, date |-> ""],
    [matches |-> {".post"}, heading |-> "Post A", text |-> "Post A on react",
     href |-> <<"/", "posts", "/", "a">>, date |-> "2024-01-10"],
    [matches |-> {"article", ".entry"}, heading |-> "Entry B", text |-> "Entry B on docker",
     href |-> <<"b.html">>, date |-> ""],
    [matches |-> {".entry-content"}, heading |-> "", text |-> "", href |-> <<>>, date |-> ""] }

LinkChoices ==
  { [href |-> <<"/", "posts", "/", "1">>, text |-> "a title of 21 letters", length |-> 21],
    [href |-> <<"posts", "/", "2">>, text |-> "a title of 20 letter", length |-> 20],
    [href |-> <<"my-first-post.html">>, text |-> "my first post about docker", length |-> 26],
    [href |-> <<"https", "://", "other.org", "/", "p">>, text |-> "an article on another site", length |-> 26],
    [href |-> <<>>, text |-> "an anchor without any href", length |-> 26] }

SeqsUpTo(S, n) == UNION {[1..k -> S] : k \in 0..n}

DocumentChoices ==
  { [blocks |-> blocks, links |-> links] :
      blocks \in SeqsUpTo(BlockChoices, MaxBlocks), links \in SeqsUpTo(LinkChoices, MaxLinks) }

MaxArticles == 3

\* The lists of at most MaxArticles articles, each without a date, with an
\* empty one, with one of four ISO dates or with a text that is no date.
ArticleChoices ==
  SeqsUpTo({ [date |-> date] :
               date \in {<<>>, <<"">>, <<"2023-11-20">>, <<"2024-01-10">>, <<"2024-01-20">>,
                         <<"2024-03-10">>, <<"yesterday">>} },
           MaxArticles)

MaxTalks == 2

TalkChoices ==
  { [title |-> "Intro to Vue", description |-> ""],
    [title |-> "Django on AWS", description |-> "Python"],
    [title |-> "JavaScript", description |-> "webpack"],
    [title |-> "React Native", description |-> ""] }

MaxPosts == 2

\* The blog pages: the texts of the elements that the tag selectors match,
\* the texts of the pre and code elements, and at most MaxPosts articles.
BlogPageChoices ==
  { [tags |-> tags, codeBlocks |-> codeBlocks, articles |-> articles] :
      tags \in {<<>>, <<"React Native", "C++", "x">>, <<"vue", "AWS", "vue">>},
      codeBlocks \in {<<>>, <<"const x = 1">>, <<"def f(): pass", "a plain text">>},
      articles \in SeqsUpTo({ [title |-> "Django on AWS", content |-> "Django on AWS with Python"],
                              [title |-> "Notes", content |-> "Notes"] }, MaxPosts) }

InitExtract == InitMerge

\* TwitterService.analyze, once userData and tweets are fetched.
AnalyzeTweets(userData, tweets) ==
  /\ extraction = NoExtraction
  /\ extraction' = [service |-> TWITTER,
                    input   |-> [userData |-> userData, tweets |-> tweets],
                    output  |-> TwitterBuild(ProfileUrl, userData, tweets)]
  /\ UNCHANGED <<serverVars, mergeVars>>

\* BlogService.analyze, once the document is fetched and parsed: the articles
\* it reports as rawData.articles, and the selectors it tried for them.
AnalyzeDocument(document) ==
  /\ extraction = NoExtraction
  /\ extraction' = [service |-> BLOG,
                    input   |-> document,
                    output  |-> DiscoverArticles(document, PageUrl)]
  /\ UNCHANGED <<serverVars, mergeVars>>

\* GitHubService.analyze, once the user and the repositories are listed.
AnalyzeRepos(user, repos) ==
  /\ extraction = NoExtraction
  /\ extraction' = [service |-> GITHUB,
                    input   |-> [user |-> user, repos |-> repos],
                    output  |-> GitHubBuild(GitHubUrl, user, repos)]
  /\ UNCHANGED <<serverVars, mergeVars>>

\* SpeakerDeckService.analyzeCommStyle applied to the presentations found.
AnalyzePresentations(presentations) ==
  /\ extraction = NoExtraction
  /\ extraction' = [service |-> SPEAKERDECK,
                    input   |-> presentations,
                    output  |-> SpeakerDeckCommStyle(presentations)]
  /\ UNCHANGED <<serverVars, mergeVars>>

\* BlogService.estimatePostFrequency applied to the articles found.
EstimatePostFrequency(articles) ==
  /\ extraction = NoExtraction
  /\ \E frequency \in estimatePostFrequency(articles) :
       extraction' = [service |-> "BlogService.estimatePostFrequency",
                      input   |-> articles,
                      output  |-> frequency]
  /\ UNCHANGED <<serverVars, mergeVars>>

\* SpeakerDeckService.analyze, lines 56-60: the topics and the tech stack
\* inferred from the presentations; detected is the tech stack before the
\* loop over topics.
InferFromPresentations(presentations) ==
  /\ extraction = NoExtraction
  /\ LET topics == extractTopicsFromPresentations(presentations)
     IN extraction' = [service |-> "SpeakerDeckService.inferTechStack",
                       input   |-> presentations,
                       output  |-> [topics    |-> topics,
                                    detected  |-> DetectInPresentations(presentations),
                                    techStack |-> inferTechStack(presentations, topics)]]
  /\ UNCHANGED <<serverVars, mergeVars>>

\* BlogService.analyze, lines 374-378: the topics and the tech stack inferred
\* from the document and its articles.
InferFromBlog(page) ==
  /\ extraction = NoExtraction
  /\ LET topics == extractTopicsFromBlog(page.tags, page.articles)
     IN extraction' = [service |-> "BlogService.inferTechStack",
                       input   |-> page,
                       output  |-> [topics    |-> topics,
                                    detected  |-> DetectInBlog(page.codeBlocks, page.articles),
                                    techStack |-> BlogInferTechStack(page.codeBlocks, page.articles, topics)]]
  /\ UNCHANGED <<serverVars, mergeVars>>

NextExtract ==
  \/ \E presentations \in DeckChoices : AnalyzePresentations(presentations)
  \/ \E articles \in ArticleChoices : EstimatePostFrequency(articles)
  \/ \E presentations \in SeqsUpTo(TalkChoices, MaxTalks) : InferFromPresentations(presentations)
  \/ \E page \in BlogPageChoices : InferFromBlog(page)
  \/ \E user \in UserChoices, repos \in RepoListings : AnalyzeRepos(user, repos)
  \/ \E document \in DocumentChoices : AnalyzeDocument(document)
  \/ \E userData \in UserDataChoices, tweets \in TweetChoices : AnalyzeTweets(userData, tweets)

SpecExtract == InitExtract /\ [][NextExtract]_vars

(***************************************************************************)
(* Properties                                                              *)
(***************************************************************************)

Done == {i \in CallIds : calls[i].pc = "done"}

\* The calls that ran their own analysis to its end.
Analysed == {i \in Done : calls[i].stored}

\* URLs that do not have the profile shape of their platform, and blog URLs
\* that are no URL, named one by one.
NoProfileUrl(platform) ==
  CASE platform = GITHUB      -> { <<"https", "://", "github.com", "/">> }
    [] platform = TWITTER     -> { <<"https", "://", "twitter.com", "/", "alice", "/", "status">> }
    [] platform = SPEAKERDECK -> { <<"https", "://", "github.com", "/", "alice">> }
    [] platform = BLOG        -> { <<"not a url">> }

HasMalformedProfile(args) ==
  \E f \in {GITHUB, TWITTER, SPEAKERDECK} :
    HasField(args, f) /\ Field(args, f) \in NoProfileUrl(f)

HasMalformedBlog(args) == HasField(args, BLOG) /\ Field(args, BLOG) \in NoProfileUrl(BLOG)

\* C1: a tool call in which none of the four URL fields is present fails with
\* an invalid-parameters error, runs no extractor and leaves the cache as it
\* was.  Violated by the call without an arguments object: the handler's
\* first property read throws a TypeError instead.
C1_NoUrlIsInvalidParams ==
  \A i \in Done :
    (\A f \in Platforms : ~HasField(calls[i].args, f))
      => /\ calls[i].response = ErrorResponse("InvalidParams")
         /\ calls[i].ran = <<>>
         /\ ~calls[i].stored

\* C2: a call whose code-host, microblog or slide-deck URL lacks the profile
\* shape is answered with an invalid-parameters error before any extractor
\* runs, before the cache is consulted and without any network call, whatever
\* the other URLs of the request are.
C2_MalformedProfileRejected ==
  \A i \in CallIds :
    (calls[i].pc # "idle" /\ HasMalformedProfile(calls[i].args))
      => /\ calls[i].pc = "done"
         /\ calls[i].response = ErrorResponse("InvalidParams")
         /\ calls[i].ran = <<>>
         /\ calls[i].fetched = <<>>
         /\ ~calls[i].consulted
         /\ ~calls[i].stored

\* C2 witness: a request with a code-host URL without a username and a valid
\* blog URL has been rejected.
C2_Witness ==
  \E i \in Done :
    /\ HasField(calls[i].args, GITHUB)
    /\ Field(calls[i].args, GITHUB) = <<"https", "://", "github.com", "/">>
    /\ HasField(calls[i].args, BLOG)
    /\ Field(calls[i].args, BLOG) = <<"https", "://", "example.com", "/", "blog">>
    /\ calls[i].response.kind = "error"

\* C3: a request whose blog field is not a parseable URL is rejected with an
\* error, and the malformed URL is never passed to the blog extractor.
\* Violated: the handler has no check of the blog URL.
C3_MalformedBlogRejected ==
  \A i \in CallIds :
    (calls[i].pc # "idle" /\ HasMalformedBlog(calls[i].args))
      => /\ ~Contains(calls[i].ran, BLOG)
         /\ calls[i].pc = "done" => calls[i].response.kind = "error"

\* C4: once a call for a request has completed, every later call with the
\* identical request returns the summary of the first call and runs no
\* extractor.  Violated when two identical calls overlap: the one that
\* finishes last overwrites the cached summary of the first.
C4_LaterCallRepeatsFirstSummary ==
  \A i \in CallIds :
    (calls[i].pc # "idle" /\ calls[i].expected # <<>>)
      => /\ calls[i].pc = "done"
         /\ calls[i].response = TextResponse(calls[i].expected[1])
         /\ calls[i].ran = <<>>
         /\ calls[i].fetched = <<>>

PlatformsOf(platformAnalyses) ==
  [k \in 1..Len(platformAnalyses) |-> platformAnalyses[k].platform]

\* The requested platforms whose extractor did not fail in call i.
Succeeded(i) ==
  SelectSeq(Requested(calls[i].args), LAMBDA f : ~Contains(calls[i].failed, f))

\* C5: whichever extractors fail, analyze completes without raising: the
\* result holds exactly the requested platforms whose extractor succeeded,
\* each once, and every requested extractor was run, those after a failed one
\* included.
C5_FailuresAreOmitted ==
  \A i \in CallIds :
    /\ calls[i].pc = "analyzing" =>
         /\ calls[i].ran = SubSeq(Requested(calls[i].args), 1, Len(calls[i].ran))
         /\ Len(calls[i].failed) + Len(calls[i].platformAnalyses) = Len(calls[i].ran) - 1
    /\ (calls[i].pc = "done" /\ calls[i].consulted /\ calls[i].ran # <<>>) =>
         /\ calls[i].response.kind = "text"
         /\ calls[i].ran = Requested(calls[i].args)
         /\ PlatformsOf(calls[i].result.platforms) = Succeeded(i)
         /\ \A f \in Range(calls[i].failed) :
              ~Contains(PlatformsOf(calls[i].result.platforms), f)

\* C5 witness: the first of three requested extractors failed and the two
\* after it succeeded.
C5_Witness ==
  \E i \in Done :
    /\ Len(Requested(calls[i].args)) = 3
    /\ calls[i].failed = <<Requested(calls[i].args)[1]>>
    /\ Len(calls[i].result.platforms) = 2

\* C6: when every requested extractor fails the call still succeeds, with an
\* empty aggregate: no platforms, no languages, frameworks, tools, topics,
\* interests or activities, frequency 0, the 'insufficient information'
\* style, no work style; the caller gets the summary text.
C6_AllFailedIsEmptyResult ==
  \A i \in Done :
    (calls[i].ran # <<>> /\ Len(calls[i].failed) = Len(Requested(calls[i].args)))
      => /\ calls[i].response.kind = "text"
         /\ calls[i].response.text = calls[i].result.summary
         /\ Len(calls[i].response.text) > 0
         /\ calls[i].result.platforms = <<>>
         /\ calls[i].result.techStack =
              [languages |-> <<>>, frameworks |-> <<>>, tools |-> <<>>, topics |-> <<>>]
         /\ calls[i].result.personality.interests = <<>>
         /\ calls[i].result.personality.activities = <<>>
         /\ calls[i].result.personality.communication.frequency = <<RatZero>>
         /\ calls[i].result.personality.communication.style = <<InsufficientInfo>>
         /\ calls[i].result.personality.communication.topics = <<<<>>>>
         /\ calls[i].result.personality.workStyle = <<>>

\* C6 witness: a call that requested two platforms, both of whose extractors
\* failed, has been answered.
C6_Witness ==
  \E i \in Done :
    /\ Len(Requested(calls[i].args)) = 2
    /\ Len(calls[i].failed) = 2
    /\ calls[i].response.kind = "text"

\* The localized display names, as generateSummary's switch gives them.
LocalizedName(platform) ==
  CASE platform = GITHUB      -> "GitHub"
    [] platform = TWITTER     -> "Twitter/X"
    [] platform = SPEAKERDECK -> "SpeakerDeck"
    [] platform = BLOG        -> "burogu"

\* A request that passes for valid: an object with at least one URL, none of
\* them malformed.
ValidRequest(args) ==
  /\ \E f \in Platforms : Given(args, f)
  /\ ~HasMalformedProfile(args)
  /\ ~HasMalformedBlog(args)

\* C7 as stated: for every valid request and every outcome of the upstream
\* fetches the response is a non-empty summary that names every platform
\* whose URL was given.  Violated when an extractor fails.
C7_SummaryNamesEveryRequested ==
  \A i \in Done :
    ValidRequest(calls[i].args)
      => /\ calls[i].response.kind = "text"
         /\ Len(calls[i].response.text) > 0
         /\ \A f \in Range(Requested(calls[i].args)) :
              Contains(calls[i].response.text[1].items, LocalizedName(f))

\* C7 as amended: for every valid request and every outcome of the upstream
\* fetches the response is a non-empty summary whose heading names, in
\* platform order, exactly the requested platforms whose extractor succeeded
\* in the analysis that produced the summary (its own, or on a cache hit an
\* earlier one of the identical request); a platform whose extractor failed is
\* not named.
C7_SummaryNamesSucceeded ==
  \A i \in Done :
    ValidRequest(calls[i].args)
      => /\ calls[i].response.kind = "text"
         /\ Len(calls[i].response.text) > 0
         /\ \E j \in Analysed :
              /\ calls[j].args = calls[i].args
              /\ (calls[i].stored => j = i)
              /\ calls[i].response.text = calls[j].result.summary
              /\ calls[i].response.text[1].items =
                   [k \in 1..Len(Succeeded(j)) |-> LocalizedName(Succeeded(j)[k])]

\* C7 witness: a call for two platforms, one of which failed, has been
\* answered with a summary that names the other one only.
C7_Witness ==
  \E i \in Analysed :
    /\ ValidRequest(calls[i].args)
    /\ Len(Requested(calls[i].args)) = 2
    /\ Len(calls[i].failed) = 1
    /\ Len(calls[i].response.text[1].items) = 1

\* The tally of one category in a (partial) TechStack.
TallyOf(techStack, category) ==
  CASE category = "languages"  -> techStack.languages
    [] category = "frameworks" -> techStack.frameworks
    [] category = "tools"      -> techStack.tools

Categories == {"languages", "frameworks", "tools"}

TallyKeys == {"python", "go", "react", "docker", "git", "rust", "ruby"}

\* The sum of key's scores in one category over the first n platform analyses.
RECURSIVE ScoreSum(_, _, _, _)
ScoreSum(analyses, category, key, n) ==
  IF n = 0 THEN 0
  ELSE ScoreSum(analyses, category, key, n - 1)
       + ScoreOf(TallyOf(analyses[n].techStack, category), key)

\* C8: for every sequence of platform analyses and every key, the merged
\* score of the key in languages, frameworks and tools is the exact sum of its
\* scores over the platforms that report it; a key that no platform reports
\* is absent from the merged map, a reported key occurs in it once, and no
\* merged score is lower than a contributing score.
C8_MergedScoreIsSum ==
  mergeOutput.done =>
    \A category \in Categories, key \in TallyKeys :
      LET merged == TallyOf(mergeOutput.techStack, category)
          reporting == {n \in 1..Len(mergeInput) :
                          HasKey(TallyOf(mergeInput[n].techStack, category), key)}
      IN /\ ScoreOf(merged, key) = ScoreSum(mergeInput, category, key, Len(mergeInput))
         /\ HasKey(merged, key) <=> reporting # {}
         /\ Cardinality({k \in 1..Len(merged) : merged[k][1] = key}) <= 1
         /\ \A n \in reporting :
              ScoreOf(merged, key) >= ScoreOf(TallyOf(mergeInput[n].techStack, category), key)

\* C8 witness: two platforms report python with 3 and with 2, and the merge
\* reports python with 5.
C8_Witness ==
  /\ mergeOutput.done
  /\ Len(mergeInput) = 2
  /\ ScoreOf(mergeInput[1].techStack.languages, "python") = 3
  /\ ScoreOf(mergeInput[2].techStack.languages, "python") = 2
  /\ ScoreOf(mergeOutput.techStack.languages, "python") = 5

\* The values of one list-valued facet of a platform analysis.
FacetOf(analysis, facet) ==
  CASE facet = "topics"     -> analysis.techStack.topics
    [] facet = "interests"  -> analysis.personality.interests
    [] facet = "activities" -> analysis.personality.activities
    [] facet = "communication.topics" ->
         IF analysis.personality.communication.topics = <<>> THEN <<>>
         ELSE analysis.personality.communication.topics[1]

MergedFacet(facet) ==
  CASE facet = "topics"     -> mergeOutput.techStack.topics
    [] facet = "interests"  -> mergeOutput.personality.interests
    [] facet = "activities" -> mergeOutput.personality.activities
    [] facet = "communication.topics" -> mergeOutput.personality.communication.topics[1]

Facets == {"topics", "interests", "activities", "communication.topics"}

\* All values of a facet over the first n analyses, in the order reported.
RECURSIVE Reported(_, _, _)
Reported(analyses, facet, n) ==
  IF n = 0 THEN <<>>
  ELSE Reported(analyses, facet, n - 1) \o FacetOf(analyses[n], facet)

FirstIndex(s, x) == CHOOSE i \in 1..Len(s) : s[i] = x /\ \A j \in 1..(i - 1) : s[j] # x

\* C9: for every sequence of platform analyses the merged topics, interests,
\* activities and communication.topics each hold every value some platform
\* reports, exactly once, and the activities stand in the order of their
\* first appearance across the platforms.
C9_MergedListsAreUnions ==
  mergeOutput.done =>
    /\ \A facet \in Facets :
         /\ Range(MergedFacet(facet)) = Range(Reported(mergeInput, facet, Len(mergeInput)))
         /\ NoDuplicates(MergedFacet(facet))
    /\ LET merged == mergeOutput.personality.activities
           all    == Reported(mergeInput, "activities", Len(mergeInput))
       IN \A a, b \in 1..Len(merged) :
            a < b => FirstIndex(all, merged[a]) < FirstIndex(all, merged[b])

\* C9 witness: two platforms report the same activity, one of them twice in
\* its own list, and the merge holds it once.
C9_Witness ==
  /\ mergeOutput.done
  /\ Len(mergeInput) = 2
  /\ Contains(mergeInput[1].personality.activities, "OSS developer")
  /\ Contains(mergeInput[2].personality.activities, "OSS developer")
  /\ Contains(mergeInput[2].personality.activities, "speaker")
  /\ Len(Reported(mergeInput, "topics", 2)) > Len(mergeOutput.techStack.topics)
  /\ Cardinality({k \in 1..Len(mergeOutput.personality.activities) :
                    mergeOutput.personality.activities[k] = "OSS developer"}) = 1

\* The sum of the frequencies the first n platform analyses report.
RECURSIVE FrequencySum(_, _)
FrequencySum(analyses, n) ==
  IF n = 0 THEN RatZero
  ELSE LET f == analyses[n].personality.communication.frequency
       IN IF f = <<>> THEN FrequencySum(analyses, n - 1)
          ELSE RatAdd(FrequencySum(analyses, n - 1), f[1])

\* C10: the merged communication.frequency is the sum of the frequencies of
\* the platforms that report one, divided by the number of all platforms
\* analysed (10 and one platform with 0 or without a frequency give 5); it is
\* 0 when no platform was analysed.
C10_FrequencyIsMeanOverAll ==
  mergeOutput.done =>
    LET n   == Len(mergeInput)
        sum == FrequencySum(mergeInput, n)
        got == mergeOutput.personality.communication.frequency[1]
    IN /\ n = 0 => got = RatZero
       /\ n > 0 => got.num * sum.den * n = sum.num * got.den
       /\ got.den > 0

\* C10 witness: of two platforms analysed one reports 10 and the other no
\* frequency, and the merged frequency is 5.
C10_Witness ==
  /\ mergeOutput.done
  /\ Len(mergeInput) = 2
  /\ mergeInput[1].personality.communication.frequency = <<Rat(10, 1)>>
  /\ mergeInput[2].personality.communication.frequency = <<>>
  /\ mergeOutput.personality.communication.frequency = <<Rat(5, 1)>>

\* The platforms, by their place in the list, that report the work style label.
ReportingStyle(label) ==
  {n \in 1..Len(mergeInput) : mergeInput[n].personality.workStyle = <<label>>}

WorkStyleLabels ==
  {mergeInput[n].personality.workStyle[1] :
     n \in {k \in 1..Len(mergeInput) : mergeInput[k].personality.workStyle \notin {<<>>, <<"">>}}}

Earliest(S) == CHOOSE n \in S : \A k \in S : n <= k

\* C11: the merged workStyle is absent when no platform reports a non-empty
\* work style; otherwise it is a reported label that no other label
\* outnumbers, and among the labels with that highest count it is the one
\* met first in the platform processing order.
C11_WorkStyleIsPlurality ==
  mergeOutput.done =>
    LET merged == mergeOutput.personality.workStyle
    IN IF WorkStyleLabels = {}
       THEN merged = <<>>
       ELSE /\ Len(merged) = 1
            /\ merged[1] \in WorkStyleLabels
            /\ \A other \in WorkStyleLabels :
                 LET mine   == ReportingStyle(merged[1])
                     theirs == ReportingStyle(other)
                 IN /\ Cardinality(theirs) <= Cardinality(mine)
                    /\ Cardinality(theirs) = Cardinality(mine)
                         => Earliest(mine) <= Earliest(theirs)

\* C11 witness: three platforms, the first without a work style and the next
\* two with different labels once each; the label met first is the merged one.
C11_Witness ==
  /\ mergeOutput.done
  /\ Len(mergeInput) = 3
  /\ mergeInput[1].personality.workStyle = <<>>
  /\ mergeInput[2].personality.workStyle = <<"solo">>
  /\ mergeInput[3].personality.workStyle = <<"collaborative">>
  /\ mergeOutput.personality.workStyle = <<"solo">>

\* C11 witness of the plurality: the label met first is outnumbered.
C11_WitnessPlurality ==
  /\ mergeOutput.done
  /\ Len(mergeInput) = 3
  /\ mergeInput[1].personality.workStyle = <<"solo">>
  /\ mergeInput[2].personality.workStyle = <<"collaborative">>
  /\ mergeInput[3].personality.workStyle = <<"collaborative">>
  /\ mergeOutput.personality.workStyle = <<"collaborative">>

\* The style strings the platforms report, in platform order.
RECURSIVE ReportedStyles(_)
ReportedStyles(n) ==
  IF n = 0 THEN <<>>
  ELSE LET style == mergeInput[n].personality.communication.style
       IN IF style = <<>> \/ style = << <<>> >>
          THEN ReportedStyles(n - 1)
          ELSE Append(ReportedStyles(n - 1), style[1])

AllStyles == ReportedStyles(Len(mergeInput))

CategoryIds == 1..Len(keywordPatterns)

\* The reported styles that category c matches, by their place among them.
Matching(c) ==
  {k \in 1..Len(AllStyles) : PatternTest(keywordPatterns[c].pattern, AllStyles[k])}

\* For every category, the number of the styles it matches, and the place of
\* the first of them (0: none).
MatchCounts(styles) ==
  [c \in CategoryIds |->
     Cardinality({k \in 1..Len(styles) : PatternTest(keywordPatterns[c].pattern, styles[k])})]

FirstMatches(styles) ==
  [c \in CategoryIds |->
     IF \E k \in 1..Len(styles) : PatternTest(keywordPatterns[c].pattern, styles[k])
     THEN Earliest({k \in 1..Len(styles) : PatternTest(keywordPatterns[c].pattern, styles[k])})
     ELSE 0]

\* Category a stands before category b: more styles match it, or as many and
\* it is earlier in the category list (inList), or else it was matched first:
\* by an earlier style, or by the same style and earlier in the category list.
Before(inList, count, first, a, b) ==
  \/ count[a] > count[b]
  \/ /\ count[a] = count[b]
     /\ IF inList THEN a < b
        ELSE first[a] < first[b] \/ (first[a] = first[b] /\ a < b)

\* The keyword of the matched category with rank - 1 matched categories
\* before it.
Ranked(inList, count, first, rank) ==
  LET matched == {c \in CategoryIds : count[c] > 0}
  IN keywordPatterns[CHOOSE c \in matched :
       Cardinality({d \in matched : Before(inList, count, first, d, c)}) = rank - 1].keyword

ExpectedStyle(inList, styles) ==
  LET count   == MatchCounts(styles)
      first   == FirstMatches(styles)
      matched == Cardinality({c \in CategoryIds : count[c] > 0})
  IN IF Len(styles) = 0 THEN InsufficientInfo
     ELSE IF Len(styles) = 1 THEN styles[1]
     ELSE IF matched = 0 THEN styles[1]
     ELSE IF matched = 1
          THEN <<Ranked(inList, count, first, 1), "na komyunikeeshon sutairu">>
          ELSE <<Ranked(inList, count, first, 1), "katsu", Ranked(inList, count, first, 2),
                 "na komyunikeeshon sutairu">>

\* C12 as claimed: the merged communication.style is 'insufficient
\* information' with no reported style, the one reported style verbatim with
\* exactly one, and with several the label of the one or two categories that
\* match the most styles, ties in category-list order, or the first reported
\* style when no category matches.
C12_StyleTiesInCategoryOrder ==
  mergeOutput.done =>
    mergeOutput.personality.communication.style = <<ExpectedStyle(TRUE, AllStyles)>>

\* C12 as amended: the same, but categories matched by equally many styles
\* stand in the order in which they were first matched: styles in platform
\* order, and within one style in category-list order.
C12_StyleTiesInFirstMatchOrder ==
  mergeOutput.done =>
    mergeOutput.personality.communication.style = <<ExpectedStyle(FALSE, AllStyles)>>

\* C12 witness: the first style matches the sixth and the ninth category, the
\* second style the first category; all three count once and the label names
\* the two categories of the first style.
C12_Witness ==
  /\ mergeOutput.done
  /\ Len(AllStyles) = 2
  /\ Matching(6) = {1} /\ Matching(9) = {1} /\ Matching(1) = {2}
  /\ mergeOutput.personality.communication.style
       = << <<"kanketsu", "katsu", "hasshinryoku", "na komyunikeeshon sutairu">> >>

\* C13: without an API client a call that asks for a Twitter/X profile makes
\* no Twitter API call and the Twitter extractor does not fail; its analysis
\* has no topics, interests or activities, frequency 0 and the 'insufficient
\* information' style, and the platform is part of the aggregate and of the
\* summary.
C13_NoTokenNoApiCall ==
  ~twitterToken =>
    \A i \in CallIds :
      /\ ~Contains(calls[i].fetched, TWITTER)
      /\ (calls[i].pc = "done" /\ Contains(calls[i].ran, TWITTER)) =>
           /\ ~Contains(calls[i].failed, TWITTER)
           /\ calls[i].response.kind = "text"
           /\ \E k \in 1..Len(calls[i].result.platforms) :
                LET analysis == calls[i].result.platforms[k]
                IN /\ analysis.platform = TWITTER
                   /\ analysis.techStack.topics = <<>>
                   /\ analysis.personality.interests = <<>>
                   /\ analysis.personality.activities = <<>>
                   /\ analysis.personality.communication.frequency = <<RatZero>>
                   /\ analysis.personality.communication.style = <<InsufficientInfo>>
           /\ Contains(calls[i].response.text[1].items, "Twitter/X")

\* C13 witness: without an API client a call for a GitHub and a Twitter/X
\* profile is done; GitHub answered and both platforms are in the aggregate.
C13_Witness ==
  /\ ~twitterToken
  /\ \E i \in Done :
       /\ calls[i].ran = <<GITHUB, TWITTER>>
       /\ calls[i].fetched = <<GITHUB>>
       /\ PlatformsOf(calls[i].result.platforms) = <<GITHUB, TWITTER>>

\* a / n > p / q, for positive n and q
ShareExceeds(a, n, p, q) == RatLess(Rat(p, q), Rat(a, n))

\* C17: the Twitter/X communication style is decided by the first rule that
\* applies: no profile or no tweets, 'insufficient information'; more than
\* 5000 followers, 'influential'; a share of retweets above 0.7,
\* 'information sharing'; a share of replies above 0.5, 'dialogue'; an average
\* text length above 200, 'detailed'; below 100, 'concise'; otherwise
\* 'balanced'.  A value equal to its threshold does not meet the rule.
C17_TwitterStyleFirstMatch ==
  extraction.service = TWITTER =>
    LET userData == extraction.input.userData
        tweets   == extraction.input.tweets
        n        == Len(tweets)
        retweets == Cardinality({k \in 1..n : tweets[k].retweet})
        replies  == Cardinality({k \in 1..n : tweets[k].reply})
        total    == TotalLength(tweets)
        style    == extraction.output.personality.communication.style[1]
    IN CASE userData = <<>> \/ n = 0             -> style = InsufficientInfo
         [] OTHER ->
            CASE userData[1].followers > 5000      -> Contains(style, "eikyouryoku")
              [] userData[1].followers <= 5000 /\ ShareExceeds(retweets, n, 7, 10)
                                                   -> Contains(style, "kyouyuu")
              [] OTHER ->
                 IF ShareExceeds(replies, n, 1, 2) THEN style = <<"taiwa juushi gata">>
                 ELSE IF ShareExceeds(total, n, 200, 1) THEN Contains(style, "shousai")
                 ELSE IF RatLess(Rat(total, n), Rat(100, 1)) THEN Contains(style, "kanketsu")
                 ELSE Contains(style, "baransu")

\* C17 witness: 5000 followers, 7 retweets and 5 replies in 10 tweets of 200
\* characters each are all on their thresholds, and the style is 'balanced'.
C17_Witness ==
  /\ extraction.service = TWITTER
  /\ extraction.input.userData # <<>>
  /\ extraction.input.userData[1].followers = 5000
  /\ Len(extraction.input.tweets) = 10
  /\ Cardinality({k \in 1..10 : extraction.input.tweets[k].retweet}) = 7
  /\ Cardinality({k \in 1..10 : extraction.input.tweets[k].reply}) = 5
  /\ TotalLength(extraction.input.tweets) = 2000
  /\ Contains(extraction.output.personality.communication.style[1], "baransu")

\* No article selector matches an element of the analysed document.
NoSelectorMatches ==
  \A k \in 1..Len(articleSelectors) : ~Matches(extraction.input.blocks, articleSelectors[k])

\* The analysed document's links with a relative href and an anchor text of
\* more than 20 characters, by their place among the links.
LongRelativeLinks ==
  {k \in 1..Len(extraction.input.links) :
     LET link == extraction.input.links[k]
     IN /\ link.href # <<>>
        /\ link.href[1] \notin {"http", "https"}
        /\ link.length > 20}

HasSlash(href) == "/" \in Range(href)

\* The articles hold a stub of the link: its text as title and as content.
HasStubOf(link) ==
  \E a \in 1..Len(extraction.output.articles) :
    /\ extraction.output.articles[a].title = link.text
    /\ extraction.output.articles[a].content = link.text
    /\ Take(extraction.output.articles[a].url, 3) = Take(PageUrl, 3)
    /\ LET url == extraction.output.articles[a].url
       IN SubSeq(url, Len(url) - Len(link.href) + 1, Len(url)) = link.href

KeptOf(selector) ==
  SelectSeq(extraction.input.blocks,
            LAMBDA e : selector \in e.matches /\ e.heading # "" /\ e.text # "")

SelectorIds == 1..Len(articleSelectors)

\* The first selector of the list that matches an element (that gives an
\* article), or the last selector when there is none.
FirstMatchingId ==
  IF NoSelectorMatches THEN Len(articleSelectors)
  ELSE CHOOSE n \in SelectorIds :
         /\ Matches(extraction.input.blocks, articleSelectors[n])
         /\ \A j \in 1..(n - 1) : ~Matches(extraction.input.blocks, articleSelectors[j])

FirstYieldingId ==
  IF \A n \in SelectorIds : KeptOf(articleSelectors[n]) = <<>> THEN Len(articleSelectors)
  ELSE CHOOSE n \in SelectorIds :
         /\ KeptOf(articleSelectors[n]) # <<>>
         /\ \A j \in 1..(n - 1) : KeptOf(articleSelectors[j]) = <<>>

\* The titles of the articles match the headings of the kept elements.
ArticlesAreKeptOf(selector) ==
  /\ Len(extraction.output.articles) = Len(KeptOf(selector))
  /\ \A a \in 1..Len(extraction.output.articles) :
       /\ extraction.output.articles[a].title = KeptOf(selector)[a].heading
       /\ extraction.output.articles[a].content = KeptOf(selector)[a].text

\* C20 as claimed: the selectors are tried in the order of the list up to the
\* first that matches an element and no further, and the articles are that
\* selector's elements with a non-empty heading and a non-empty text.
C20_StopsAtFirstMatchingSelector ==
  (extraction.service = BLOG /\ ~NoSelectorMatches) =>
    /\ extraction.output.tried = SubSeq(articleSelectors, 1, FirstMatchingId)
    /\ KeptOf(articleSelectors[FirstMatchingId]) # <<>> =>
         ArticlesAreKeptOf(articleSelectors[FirstMatchingId])

\* C20 as amended: the selectors are tried in the order of the list up to the
\* first that gives an article (an element with a non-empty heading and a
\* non-empty text) and no further, and the articles are exactly those
\* elements of that selector; a selector that matches only elements without a
\* heading or text does not end the search.
C20_StopsAtFirstYieldingSelector ==
  extraction.service = BLOG =>
    /\ extraction.output.tried = SubSeq(articleSelectors, 1, FirstYieldingId)
    /\ KeptOf(articleSelectors[FirstYieldingId]) # <<>> =>
         ArticlesAreKeptOf(articleSelectors[FirstYieldingId])

\* C20 witness: 'article' matches an element without heading and an element
\* with one that '.entry' matches too; the search ends at 'article' with the
\* one article.
C20_Witness ==
  /\ extraction.service = BLOG
  /\ Len(extraction.input.blocks) = 2
  /\ extraction.input.blocks[1].matches = {"article"}
  /\ extraction.input.blocks[1].heading = ""
  /\ extraction.input.blocks[2].matches = {"article", ".entry"}
  /\ extraction.output.tried = <<"article">>
  /\ Len(extraction.output.articles) = 1
  /\ extraction.output.articles[1].title = "Entry B"

LanguageNames == {"python", "go", "ruby"}

\* The repositories of the analysed listing that are no forks, and those of
\* them whose languages were fetched, by their place in the listing.
OwnRepos == {k \in 1..Len(extraction.input.repos) : ~extraction.input.repos[k].fork}

FetchedRepos == {k \in OwnRepos : extraction.input.repos[k].languages # <<>>}

\* The bytes of the language in the fetched repositories among the first n.
RECURSIVE BytesIn(_, _)
BytesIn(language, n) ==
  IF n = 0 THEN 0
  ELSE BytesIn(language, n - 1)
       + (IF n \in FetchedRepos
          THEN ScoreOf(extraction.input.repos[n].languages[1], language) ELSE 0)

\* C16: whichever language requests fail, the GitHub analysis is built: its
\* languages tally holds, for every language, the sum of the bytes over
\* exactly the repositories that are no forks and whose languages were
\* fetched; its topics are the topics of all the repositories that are no
\* forks, those with a failed language request included; a fork adds neither
\* languages nor topics.
C16_LanguageFailureIsSkipped ==
  extraction.service = GITHUB =>
    LET repos == extraction.input.repos
        out   == extraction.output
    IN /\ out.platform = GITHUB
       /\ \A language \in LanguageNames :
            /\ ScoreOf(out.techStack.languages, language) = BytesIn(language, Len(repos))
            /\ HasKey(out.techStack.languages, language)
                 <=> \E k \in FetchedRepos : HasKey(repos[k].languages[1], language)
       /\ Range(out.techStack.topics) = UNION {Range(repos[k].topics) : k \in OwnRepos}
       /\ NoDuplicates(out.techStack.topics)

\* C16 witness: a listing of a repository with languages, one whose language
\* request fails and a fork; the tally is the first one's, the topics are
\* those of the first two.
C16_Witness ==
  /\ extraction.service = GITHUB
  /\ Len(extraction.input.repos) = 3
  /\ OwnRepos = {1, 2}
  /\ FetchedRepos = {1}
  /\ extraction.input.repos[2].topics = <<"cli", "react">>
  /\ extraction.input.repos[3].topics = <<"rails">>
  /\ extraction.output.techStack.languages = <<<<"python", 300>>, <<"go", 50>>>>
  /\ extraction.output.techStack.topics = <<"react", "docker", "cli">>

\* C18: the GitHub communication style is decided by the first rule that
\* applies: some repository with more than 50 stars and some repository with
\* a description of more than 100 characters, 'open and documentation
\* minded'; some repository with more than one contributor, 'collaborative';
\* more than 20 repositories, 'many projects'; otherwise 'personal
\* development'.  A user whose repositories all have at most one contributor
\* is not called 'collaborative'.
C18_GitHubStyleFirstMatch ==
  extraction.service = GITHUB =>
    LET repos == extraction.input.repos
        style == extraction.output.personality.communication.style[1]
        open  == /\ \E k \in 1..Len(repos) : repos[k].stargazers > 50
                 /\ \E k \in 1..Len(repos) : repos[k].descriptionLength > 100
        many  == \E k \in 1..Len(repos) : repos[k].contributors > 1
    IN /\ Contains(style, "oopun de") <=> open
       /\ Contains(style, "kyouchou") <=> (~open /\ many)
       /\ Contains(style, "ooku no purojekuto ni torikumu tankyuushin ousei na sutairu")
            <=> (~open /\ ~many /\ Len(repos) > 20)
       /\ Contains(style, "kojin") <=> (~open /\ ~many /\ Len(repos) <= 20)

\* The rule of the slide-deck communication style that applies first to the
\* analysed presentations: by count, average description length, average
\* title length and share of technical presentations.
DeckRule ==
  LET presentations == extraction.input
      count         == Len(presentations)
      technical     == Cardinality({k \in 1..count : presentations[k].technical})
  IN IF count > 20 THEN "kyouyuu"
     ELSE IF count > 0 /\ RatLess(Rat(200, 1), Rat(DescriptionTotal(presentations), count))
          THEN "shousai"
     ELSE IF count > 0 /\ RatLess(Rat(50, 1), Rat(TitleTotal(presentations), count))
          THEN "gutaiteki na taitoru de naiyou wo meikaku ni suru sutairu"
     ELSE IF count > 0 /\ RatLess(Rat(7, 10), Rat(technical, count))
          THEN "gijutsu"
     ELSE "baransu"

\* C19 as claimed: for every list of presentations, the empty one included,
\* the SpeakerDeck communication style is 'shares knowledge' for more than 20
\* presentations, else 'detailed' for an average description length above
\* 200, else 'descriptive titles' for an average title length above 50, else
\* 'technical' for a share of technical presentations above 0.7, else
\* 'balanced'.
C19_DeckStyleForEveryList ==
  extraction.service = SPEAKERDECK => Contains(extraction.output, DeckRule)

\* C19 as amended: the same for every list that is not empty; the style of
\* the empty list is 'insufficient information'.
C19_DeckStyleForNonEmptyList ==
  extraction.service = SPEAKERDECK =>
    IF Len(extraction.input) = 0
    THEN extraction.output = InsufficientInfo
    ELSE Contains(extraction.output, DeckRule)

\* C19 witness: 10 presentations with an average description length of 200
\* and an average title length of 50, 8 of them technical: the first two
\* rules are on their thresholds and the style is 'technical'.
C19_Witness ==
  /\ extraction.service = SPEAKERDECK
  /\ Len(extraction.input) = 10
  /\ DescriptionTotal(extraction.input) = 2000
  /\ TitleTotal(extraction.input) = 500
  /\ Cardinality({k \in 1..10 : extraction.input[k].technical}) = 8
  /\ Contains(extraction.output, "gijutsu")

\* The keys of a category that the first n platform analyses report, in the
\* order in which they report them.
RECURSIVE ReportedKeys(_, _)
ReportedKeys(category, n) ==
  IF n = 0 THEN <<>>
  ELSE ReportedKeys(category, n - 1) \o Keys(TallyOf(mergeInput[n].techStack, category))

SummaryTag(category) ==
  CASE category = "languages"  -> "- omona shiyou gengo: "
    [] category = "frameworks" -> "- omona fureemuwaaku: "
    [] category = "tools"      -> "- omona tsuuru: "

\* The lines of the merged summary that tell of the category.
SummaryLines(category) ==
  SelectSeq(mergeOutput.summary, LAMBDA line : line.tag = SummaryTag(category))

\* C15: in the merged TechStack the keys of languages, frameworks and tools
\* stand in descending order of score, keys of equal score in the order in
\* which the platforms first reported them, and the summary's line of the
\* category lists exactly the first three keys of that order, or all of them
\* when there are fewer (no line when there is none).
C15_SortedAndTopThree ==
  mergeOutput.done =>
    \A category \in Categories :
      LET merged == TallyOf(mergeOutput.techStack, category)
          seen   == ReportedKeys(category, Len(mergeInput))
          lines  == SummaryLines(category)
      IN /\ \A a, b \in 1..Len(merged) :
              a < b => \/ merged[a][2] > merged[b][2]
                       \/ /\ merged[a][2] = merged[b][2]
                          /\ FirstIndex(seen, merged[a][1]) < FirstIndex(seen, merged[b][1])
         /\ IF Len(merged) = 0 THEN lines = <<>>
            ELSE /\ Len(lines) = 1
                 /\ lines[1].items = [k \in 1..(IF Len(merged) < 3 THEN Len(merged) ELSE 3)
                                        |-> merged[k][1]]

\* C15 witness: python 3 and then python 1, go 4, rust 1, ruby 3 merge to
\* python and go with 4 each, python reported first, then ruby and rust; the
\* summary names python, go and ruby.
C15_Witness ==
  /\ mergeOutput.done
  /\ Len(mergeInput) = 2
  /\ mergeOutput.techStack.languages
       = <<<<"python", 4>>, <<"go", 4>>, <<"ruby", 3>>, <<"rust", 1>>>>
  /\ SummaryLines("languages")[1].items = <<"python", "go", "ruby">>

\* The dates, as Dates, of the articles of the input that carry a date string.
DatedArticles ==
  LET dated == SelectSeq(extraction.input, LAMBDA a : a.date # <<>> /\ a.date[1] # "")
  IN [k \in 1..Len(dated) |-> NewDate(dated[k].date[1])]

\* The dates among them that are valid Dates.
ParsedDates == {d[1] : d \in {e \in Range(DatedArticles) : e # <<>>}}

AllParsed == \A k \in 1..Len(DatedArticles) : DatedArticles[k] # <<>>

\* The number of the calendar month of a date, counted from year 0.
MonthIndex(date) == date.year * 12 + date.month

OldestParsed == CHOOSE d \in ParsedDates : \A e \in ParsedDates : d.time <= e.time
NewestParsed == CHOOSE d \in ParsedDates : \A e \in ParsedDates : e.time <= d.time

\* C21, as claimed: the blog frequency follows the rule of the tweet
\* frequency applied to the article dates, that is the number of articles
\* divided by the number of days between the oldest and the newest dated
\* article, and the number of articles itself when fewer than two articles
\* carry a date or when that span is zero.  (Stated for the inputs whose
\* dates are all valid.)
C21_BlogFrequencyIsPerDay ==
  (extraction.service = "BlogService.estimatePostFrequency" /\ AllParsed) =>
    LET count == Len(extraction.input)
    IN IF Len(DatedArticles) < 2 THEN extraction.output = Rat(count, 1)
       ELSE LET days == NewestParsed.time - OldestParsed.time
            IN extraction.output = (IF days > 0 THEN Rat(count, days) ELSE Rat(count, 1))

\* C21, amended: the blog frequency is the number of articles divided by
\* twelve when fewer than two articles carry a date; otherwise, when all the
\* dates are valid, it is the number of articles divided by the number of
\* calendar months from the month of the oldest dated article to the month
\* of the newest, and the number of articles itself when both are of the
\* same month.  When some date is not valid it is the number of articles
\* itself or that number divided by the months between two of the valid
\* dates.
C21_BlogFrequencyIsPerMonth ==
  extraction.service = "BlogService.estimatePostFrequency" =>
    LET count == Len(extraction.input)
    IN IF Len(DatedArticles) < 2 THEN extraction.output = Rat(count, 12)
       ELSE IF AllParsed
            THEN LET months == MonthIndex(NewestParsed) - MonthIndex(OldestParsed)
                 IN extraction.output = (IF months > 0 THEN Rat(count, months) ELSE Rat(count, 1))
            ELSE \/ extraction.output = Rat(count, 1)
                 \/ \E d, e \in ParsedDates :
                      /\ MonthIndex(e) > MonthIndex(d)
                      /\ extraction.output = Rat(count, MonthIndex(e) - MonthIndex(d))

\* Three articles, two of them dated, of November 2023 and January 2024: two
\* months and 61 days apart, and the frequency is 3 / 2.
C21_Witness ==
  /\ extraction.service = "BlogService.estimatePostFrequency"
  /\ Len(extraction.input) = 3
  /\ extraction.input[1].date = <<"2024-01-20">>
  /\ extraction.input[2].date = <<>>
  /\ extraction.input[3].date = <<"2023-11-20">>
  /\ extraction.output = [num |-> 3, den |-> 2]

InferenceServices == {"SpeakerDeckService.inferTechStack", "BlogService.inferTechStack"}

TallyNames == <<"languages", "frameworks", "tools">>

Vocabulary(category) ==
  CASE category = "languages"  -> languageList
    [] category = "frameworks" -> frameworkList
    [] category = "tools"      -> toolList

\* The position in the vocabulary of its first entry that the topic contains
\* as a substring, 0 when it contains none.
FirstContained(vocabulary, topic) ==
  IF \E i \in 1..Len(vocabulary) : Includes(topic, vocabulary[i])
  THEN CHOOSE i \in 1..Len(vocabulary) :
         /\ Includes(topic, vocabulary[i])
         /\ \A j \in 1..(i - 1) : ~Includes(topic, vocabulary[j])
  ELSE 0

\* The topics (by position) whose first contained entry of the category's
\* vocabulary is its entry number i.
TopicsFor(topics, category, i) ==
  {t \in 1..Len(topics) : FirstContained(Vocabulary(category), topics[t]) = i}

\* Among the topics for entry i of category number c, those that contain no
\* entry of an earlier category.
TopicsCountedFor(topics, c, i) ==
  {t \in TopicsFor(topics, TallyNames[c], i) :
     \A d \in 1..(c - 1) : FirstContained(Vocabulary(TallyNames[d]), topics[t]) = 0}

\* C22: in the loop over the collected topics, a topic adds at most one
\* increment to a category however many entries of the vocabulary it
\* contains, the entry incremented is the first one of the vocabulary that
\* the topic contains, and the tallies after the loop are the tallies before
\* it plus these increments only.  (The increment of a topic goes to the
\* first of languages, frameworks and tools of which it contains an entry.)
C22_TopicAddsOneToFirstEntry ==
  extraction.service \in InferenceServices =>
    LET topics == extraction.output.topics
        before == extraction.output.detected
        after  == extraction.output.techStack
    IN \A c \in 1..Len(TallyNames) :
         LET category   == TallyNames[c]
             vocabulary == Vocabulary(category)
         IN /\ \A k \in 1..Len(after[category]) : Contains(vocabulary, after[category][k][1])
            /\ \A i \in 1..Len(vocabulary) :
                 LET added == ScoreOf(after[category], vocabulary[i]) - ScoreOf(before[category], vocabulary[i])
                 IN /\ added >= 0
                    /\ added <= Cardinality(TopicsFor(topics, category, i))
                    /\ added = Cardinality(TopicsCountedFor(topics, c, i))

\* Two presentations whose topics include 'javascript', which contains four
\* entries of the language list, and 'django', which contains the language
\* 'go' and the framework 'django': javascript and java gain one each, c and
\* r none, go two and the framework django none.
C22_Witness ==
  /\ extraction.service = "SpeakerDeckService.inferTechStack"
  /\ extraction.output.topics = <<"javascript", "java", "web", "python", "go", "django", "aws">>
  /\ extraction.output.detected.languages =
       <<<<"javascript", 1>>, <<"java", 1>>, <<"c", 1>>, <<"r", 1>>, <<"python", 1>>, <<"go", 1>>>>
  /\ extraction.output.techStack.languages =
       <<<<"javascript", 2>>, <<"java", 2>>, <<"c", 1>>, <<"r", 1>>, <<"python", 2>>, <<"go", 3>>>>
  /\ extraction.output.techStack.frameworks = extraction.output.detected.frameworks
  /\ extraction.output.techStack.tools = <<<<"webpack", 1>>, <<"aws", 2>>>>

\* A blog whose tags are 'react native' and 'c++': both contain the language
\* 'c' before any other entry, which gains two, and react and c++ gain none.
C22_WitnessBlog ==
  /\ extraction.service = "BlogService.inferTechStack"
  /\ extraction.output.topics = <<"react native", "c++">>
  /\ extraction.output.detected = NoTallies
  /\ extraction.output.techStack = [NoTallies EXCEPT !.languages = <<<<"c", 2>>>>]

\* C23: the activities of the PlatformAnalysis that an extractor builds
\* contain no empty and no blank (whitespace-only) string, whatever the bio,
\* description and company that the platform reports.
C23_NoBlankActivity ==
  extraction.service \in {GITHUB, TWITTER} =>
    \A k \in 1..Len(extraction.output.personality.activities) :
      ~TrimIsEmpty(extraction.output.personality.activities[k])

\* The place of a platform in the order code host, microblog, slide deck,
\* blog.
PlatformRank(platform) ==
  CASE platform = GITHUB      -> 1
    [] platform = TWITTER     -> 2
    [] platform = SPEAKERDECK -> 3
    [] platform = BLOG        -> 4

\* A sequence of platforms follows that order, without repetition.
InFixedOrder(platforms) ==
  \A j, k \in 1..Len(platforms) : j < k => PlatformRank(platforms[j]) < PlatformRank(platforms[k])

\* C24: within one request the extractors run one at a time in the order
\* code host, microblog, slide deck, blog: the extractors started so far are
\* the first requested ones in that order, all of them but the one being
\* awaited have returned or failed, and the platforms of the result and the
\* names in the heading of the summary follow that order, whatever the order
\* of the members of the request and whichever extractors fail.
C24_ExtractorsRunInFixedOrder ==
  \A i \in CallIds :
    LET c         == calls[i]
        requested == {f \in {GITHUB, TWITTER, SPEAKERDECK, BLOG} : Given(c.args, f)}
        settled   == Range(PlatformsOf(c.platformAnalyses)) \cup Range(c.failed)
    IN /\ InFixedOrder(c.ran)
       /\ Range(c.ran) \subseteq requested
       /\ \A f \in requested, g \in Range(c.ran) :
            PlatformRank(f) < PlatformRank(g) => f \in Range(c.ran)
       /\ Range(PlatformsOf(c.platformAnalyses)) \cap Range(c.failed) = {}
       /\ c.pc = "analyzing" =>
            /\ c.ran # <<>>
            /\ PlatformRank(c.ran[Len(c.ran)]) = c.awaiting
            /\ settled = Range(c.ran) \ {c.ran[Len(c.ran)]}
       /\ c.pc # "analyzing" => settled = Range(c.ran)
       /\ InFixedOrder(PlatformsOf(c.platformAnalyses))
       /\ (c.pc = "done" /\ c.stored) =>
            /\ Range(c.ran) = requested
            /\ c.result.platforms = c.platformAnalyses
            /\ c.response.text[1].items =
                 [k \in 1..Len(c.platformAnalyses) |-> LocalizedName(c.platformAnalyses[k].platform)]

\* A request written with the blog first and the code host last, whose
\* slide-deck extractor failed: the result lists the code host, then the blog.
C24_Witness ==
  \E i \in Analysed :
    /\ Len(calls[i].args.fields) = 3
    /\ calls[i].args.fields[1][1] = BLOG
    /\ calls[i].args.fields[3][1] = GITHUB
    /\ calls[i].ran = <<GITHUB, SPEAKERDECK, BLOG>>
    /\ calls[i].failed = <<SPEAKERDECK>>
    /\ PlatformsOf(calls[i].result.platforms) = <<GITHUB, BLOG>>
    /\ calls[i].response.text[1].items = <<"GitHub", "burogu">>

\* Call j arrives in this step.
Arrives(j) == calls[j].pc = "idle" /\ calls'[j].pc # "idle"

\* Call i has completed an analysis in which every extractor failed, and has
\* stored its summary.
AllFailed(i) ==
  /\ calls[i].pc = "done"
  /\ calls[i].stored
  /\ calls[i].platformAnalyses = <<>>

\* Call j, on its arrival, is answered at once and runs no extractor.
AnsweredWithoutAnalysis(j) ==
  /\ calls'[j].pc = "done"
  /\ calls'[j].ran = <<>>
  /\ calls'[j].fetched = <<>>
  /\ ~calls'[j].stored
  /\ calls'[j].response.kind = "text"

\* C25: once a request whose extractors all failed has stored its empty
\* summary, every identical request that arrives later is answered with that
\* empty summary from the cache and runs no extractor, whatever the
\* platforms would answer by then.  Violated when an identical request was
\* being analysed at the same time, succeeded and stored its summary later.
C25_EmptySummaryIsServedEverAfter ==
  [][\A i, j \in CallIds :
       (AllFailed(i) /\ Arrives(j) /\ calls'[j].args = calls[i].args) =>
         /\ AnsweredWithoutAnalysis(j)
         /\ calls'[j].response.text = calls[i].result.summary]_vars

\* Call i ends its analysis in this step.
Finishes(i) == calls[i].pc = "analyzing" /\ calls'[i].pc = "done"

\* An identical request is being analysed when call j arrives.
ArrivesDuringAnalysis(j) ==
  /\ Arrives(j)
  /\ \E i \in CallIds \ {j} : calls[i].pc = "analyzing" /\ calls[i].args = calls'[j].args

\* Call j, on its arrival, starts an analysis of its own.
StartsOwnAnalysis(j) ==
  /\ calls'[j].pc = "analyzing"
  /\ calls'[j].consulted
  /\ Len(calls'[j].ran) = 1

\* What a step does to the cache: a call that ends its analysis answers with
\* the summary of its own analysis and stores it under its key, over any
\* entry there is; no other step changes the cache; no key is ever removed.
LastFinishedIsCached ==
  /\ \A i \in CallIds :
       Finishes(i) =>
         /\ calls'[i].result.platforms = calls'[i].platformAnalyses
         /\ calls'[i].response = TextResponse(calls'[i].result.summary)
         /\ cacheKey(calls[i].args) \in DOMAIN analysisCache'
         /\ analysisCache'[cacheKey(calls[i].args)] = calls'[i].result.summary
         /\ \A key \in DOMAIN analysisCache \ {cacheKey(calls[i].args)} :
              analysisCache'[key] = analysisCache[key]
  /\ (\A i \in CallIds : ~Finishes(i)) => analysisCache' = analysisCache
  /\ DOMAIN analysisCache \subseteq DOMAIN analysisCache'

\* C26, as claimed: an identical request that arrives while an earlier one is
\* still being analysed is not served from the cache and runs its own
\* extractors; each call that is analysed returns the summary of its own
\* analysis, the cache holds for a key the summary of the analysis that
\* finished last, and a key once stored is never removed.
C26_OverlappingRequestMissesCache ==
  [][/\ \A j \in CallIds : ArrivesDuringAnalysis(j) => StartsOwnAnalysis(j)
     /\ LastFinishedIsCached]_vars

\* C26, amended: an identical request that arrives while an earlier one is
\* still being analysed, and before any identical request has completed its
\* analysis, is not served from the cache and runs its own extractors; once
\* one has completed, a request that arrives is served the cached summary
\* even while another one is still being analysed.  Each call that is
\* analysed returns the summary of its own analysis, the cache holds for a
\* key the summary of the analysis that finished last, and a key once stored
\* is never removed.
C26_OverlappingRequestMissesEmptyCache ==
  [][/\ \A j \in CallIds :
          ArrivesDuringAnalysis(j) =>
            IF cacheKey(calls'[j].args) \in DOMAIN analysisCache
            THEN /\ AnsweredWithoutAnalysis(j)
                 /\ calls'[j].response.text = analysisCache[cacheKey(calls'[j].args)]
            ELSE StartsOwnAnalysis(j)
     /\ LastFinishedIsCached]_vars

\* Two identical requests were analysed at the same time, each answered
\* with the summary of its own analysis; the summaries differ, and the cache
\* holds the one of the analysis that finished last, not the first.
C26_Witness ==
  \E i, k \in Analysed :
    /\ i # k
    /\ calls[i].args = calls[k].args
    /\ calls[i].expected = <<>> /\ calls[k].expected = <<>>
    /\ calls[i].ran # <<>> /\ calls[k].ran # <<>>
    /\ calls[i].response.text = calls[i].result.summary
    /\ calls[k].response.text = calls[k].result.summary
    /\ calls[i].result.summary # calls[k].result.summary
    /\ firstSummary[cacheKey(calls[i].args)] = calls[i].result.summary
    /\ analysisCache[cacheKey(calls[i].args)] = calls[k].result.summary

====
